---- MODULE Spec2Model ----
(***************************************************************************)
(* State-machine model of the Syntropy memory allocators.                  *)
(*                                                                         *)
(* Each allocator family has its own specification over a shared set of    *)
(* variables; the variables of the families a specification does not       *)
(* exercise stay at their initial value.                                   *)
(*                                                                         *)
(*   SpecTLSF     TwoLevelSegregatedFitAllocator (segregated_allocator.cpp)*)
(*   SpecBlock    BlockAllocator / MonotonicBlockAllocator                 *)
(*   SpecQuota    QuotaAllocator<TAllocator>                               *)
(*   SpecContext  MemoryContext / default memory resource                  *)
(*   SpecBump     LinearAllocator / SequentialMemoryResource               *)
(*                                                                         *)
(* Addresses and sizes are in bytes.  NULL is address 0.                   *)
(***************************************************************************)
EXTENDS Integers, Sequences, FiniteSets, TLC

VARIABLES
    heap,       \* TLSF: arena memory (block headers), free_lists_, last_block_, pool head
    live,       \* TLSF: blocks handed to the caller and not yet freed (ghost)
    ret,        \* TLSF: outcome of the last operation (ghost)
    coal,       \* TLSF: progress of an allocate-A, allocate-B, free, free, allocate run (ghost)
    tsteps,     \* TLSF: number of operations performed
    fresh,      \* TLSF: the merged region of a fresh-arena allocate, allocate, free, free run (ghost)
    blk,        \* block allocators: head_, free stack / free list, committed blocks
    blive,      \* block allocators: blocks handed out and not yet freed (ghost)
    bret,       \* block allocators: outcome of the last Allocate (ghost)
    quota,      \* QuotaAllocator: allocation_size_, outstanding blocks, last outcome
    ctx,        \* MemoryContext: per-thread default resource and stack of live contexts
    bump,       \* LinearAllocator / SequentialMemoryResource: head_ and the rewind run
    own,        \* bump allocators with Owns: the allocator, its live blocks and checkpoints
    thr,        \* threads: each thread's default resource / allocator slot and its position
    aln,        \* Align on byte spans: the span, the alignment and the result
    lsf,        \* LinearSegregatedFitAllocator: pages, free_lists_, the page allocator, live blocks
    vmr,        \* VirtualMemoryResource: unallocated_, the free list, live blocks, last outcome
    lvm,        \* LinearVirtualMemoryResource: head_, granularity_, committed pages, saved states
    idx,        \* size-class index functions: the sizes asked and the indices returned
    lin,        \* LinearAllocator with a status stack: head_, status_, the saved statuses
    esf         \* ExponentialSegregatedFitAllocator: the classes, the size asked, the class chosen

tlsfVars == <<heap, live, ret, coal, tsteps, fresh>>
blockVars == <<blk, blive, bret>>
vars == <<heap, live, ret, coal, tsteps, fresh, blk, blive, bret, quota, ctx, bump, own, thr, aln, lsf, vmr, lvm, idx, lin, esf>>

NULL == 0

(***************************************************************************)
(* Math helpers (math/math.h).                                             *)
(***************************************************************************)
RECURSIVE FloorLog2(_)
FloorLog2(n) == IF n <= 1 THEN 0 ELSE 1 + FloorLog2(n \div 2)

RECURSIVE Pow2(_)
Pow2(k) == IF k <= 0 THEN 1 ELSE 2 * Pow2(k - 1)

Ceil(x, m) == ((x + m - 1) \div m) * m

Floor(x, m) == (x \div m) * m

Max(a, b) == IF a >= b THEN a ELSE b

Min(a, b) == IF a <= b THEN a ELSE b

(***************************************************************************)
(* TWO LEVEL SEGREGATED FIT ALLOCATOR                                      *)
(***************************************************************************)

\* Layout of the block headers (memory/segregated_allocator.h).
HeaderSize == 16            \* sizeof(BlockHeader): previous_ and size_
kMinimumBlockSize == 32     \* sizeof(FreeBlockHeader): BlockHeader, next_free_, previous_free_
kSizeMask == 3              \* the two low bits of size_ hold the flags
kBusyBlockFlag == 2
kLastBlockFlag == 1

\* The arena: pool_ spans [ArenaBase, ArenaBase + Capacity).
ArenaBase == 4 * 64
Capacity == 160
second_level_index_ == 2
TlsfMaxOps == 9

\* Sizes and (size, alignment) pairs the callers request.
ReqSizes == {16, 20, 48, 64}
ReqAligned == {<<8, 8>>, <<16, 32>>}

\* free_lists_.resize((FloorLog2(range size) + 1) * 2^second_level_index_)
NumFreeLists == (FloorLog2(Capacity) + 1) * Pow2(second_level_index_)

\* BlockHeader accessors over the packed size_ word.
GetSize(size_) == size_ - (size_ % (kSizeMask + 1))

IsBusy(size_) == (size_ \div kBusyBlockFlag) % 2 = 1

IsLast(size_) == (size_ \div kLastBlockFlag) % 2 = 1

\* size_ = size | (size_ & kSizeMask)
SetSize(size_, size) ==
    LET lo == size % (kSizeMask + 1)
        fl == size_ % (kSizeMask + 1)
        or2 == (IF lo % 2 = 1 \/ fl % 2 = 1 THEN 1 ELSE 0)
               + (IF lo \div 2 = 1 \/ fl \div 2 = 1 THEN 2 ELSE 0)
    IN (size - lo) + or2

SetBusy(size_, is_busy) ==
    IF is_busy THEN (IF IsBusy(size_) THEN size_ ELSE size_ + kBusyBlockFlag)
               ELSE (IF IsBusy(size_) THEN size_ - kBusyBlockFlag ELSE size_)

SetLast(size_, is_last) ==
    IF is_last THEN (IF IsLast(size_) THEN size_ ELSE size_ + kLastBlockFlag)
               ELSE (IF IsLast(size_) THEN size_ - kLastBlockFlag ELSE size_)

\* Memory that was never written reads as zero.
ZeroHeader == [size_ |-> 0, previous_ |-> NULL, next_free_ |-> NULL, previous_free_ |-> NULL]

Rd(h, a) == IF a \in DOMAIN h.mem THEN h.mem[a] ELSE ZeroHeader

Wr(h, a, rec) ==
    [h EXCEPT !.mem = [x \in (DOMAIN h.mem) \cup {a} |-> IF x = a THEN rec ELSE h.mem[x]]]

Fault(h, what) == IF h.fault = "none" THEN [h EXCEPT !.fault = what] ELSE h

\* BlockHeader::end()
BlockEnd(h, a) == a + GetSize(Rd(h, a).size_)

\* BlockHeader::begin()
BlockBegin(a) == a + HeaderSize

\* GetFreeListIndexBySize with the second level taken one bit too wide.
GetFreeListIndexBySizeWide(size) ==
    LET first_level == FloorLog2(size)
        second_level == (size - Pow2(first_level)) \div Pow2(first_level - second_level_index_ - 1)
    IN IF size < Pow2(second_level_index_)
       THEN -1
       ELSE first_level * Pow2(second_level_index_) + second_level

GetFreeListIndexBySize(size) ==
    LET first_level == FloorLog2(size)
        second_level == (size - Pow2(first_level)) \div Pow2(first_level - second_level_index_)
    IN IF size < Pow2(second_level_index_)
       THEN -1      \* the shift count first_level - second_level_index_ underflows
       ELSE first_level * Pow2(second_level_index_) + second_level

SetFreeList(h, index, a) ==
    IF index \in 0..(NumFreeLists - 1)
    THEN [h EXCEPT !.free_lists_[index] = a]
    ELSE Fault(h, "bad_index")

\* RemoveBlock, first half: the predecessor's next_free_, or the bucket head.
RemoveBlockUnlinkPrevious(h, b) ==
    IF b.previous_free_ # NULL
    THEN Wr(h, b.previous_free_, [Rd(h, b.previous_free_) EXCEPT !.next_free_ = b.next_free_])
    ELSE SetFreeList(h, GetFreeListIndexBySize(GetSize(b.size_)), b.next_free_)

\* RemoveBlock, second half: the successor's previous_free_.
RemoveBlockUnlinkNext(h, b) ==
    IF b.next_free_ # NULL
    THEN Wr(h, b.next_free_, [Rd(h, b.next_free_) EXCEPT !.previous_free_ = b.previous_free_])
    ELSE h

RemoveBlock(h, block) ==
    RemoveBlockUnlinkNext(RemoveBlockUnlinkPrevious(h, Rd(h, block)), Rd(h, block))

InsertBlockAt(h, block, index) ==
    IF index \in 0..(NumFreeLists - 1)
    THEN [Wr(h, block, [Rd(h, block) EXCEPT !.previous_free_ = NULL,
                                            !.next_free_ = h.free_lists_[index]])
             EXCEPT !.free_lists_[index] = block]
    ELSE Fault(h, "bad_index")

InsertBlock(h, block) ==
    InsertBlockAt(h, block, GetFreeListIndexBySize(GetSize(Rd(h, block).size_)))

\* PopBlock: SYNTROPY_ASSERT(!block->IsBusy())
PopBlockAssert(h, block) ==
    IF IsBusy(Rd(h, block).size_) THEN [h EXCEPT !.asserted = TRUE] ELSE h

\* PopBlock: the next free block becomes the head of the bucket.
PopBlockUnlink(h, index, next_free) ==
    IF next_free # NULL
    THEN Wr([h EXCEPT !.free_lists_[index] = next_free], next_free,
            [Rd(h, next_free) EXCEPT !.previous_free_ = NULL])
    ELSE [h EXCEPT !.free_lists_[index] = next_free]

PopBlock(h, index) ==
    Wr(PopBlockUnlink(PopBlockAssert(h, h.free_lists_[index]), index,
                      Rd(h, h.free_lists_[index]).next_free_),
       h.free_lists_[index],
       [Rd(h, h.free_lists_[index]) EXCEPT !.size_ = SetBusy(@, TRUE)])

\* PushBlock: into->SetSize(into->GetSize() + from->GetSize()); into->SetLast(from->IsLast())
MergeInto(h, into, from) ==
    Wr(h, into,
       [Rd(h, into) EXCEPT
           !.size_ = SetLast(SetSize(@, GetSize(@) + GetSize(Rd(h, from).size_)),
                             IsLast(Rd(h, from).size_))])

MergesPrevious(h, block) ==
    Rd(h, block).previous_ # NULL /\ ~IsBusy(Rd(h, Rd(h, block).previous_).size_)

\* A PushBlock that leaves a free previous block alone.
PushBlockKeepsPrevious(h, block) == h

\* PushBlock: merge with the previous physical block; merged_block becomes previous_block.
PushBlockMergePrevious(h, block) ==
    IF MergesPrevious(h, block)
    THEN MergeInto(RemoveBlock(h, Rd(h, block).previous_), Rd(h, block).previous_, block)
    ELSE h

\* PushBlock: merge with the next physical block; the code grows block, not merged_block.
PushBlockMergeNext(h, block, next_block) ==
    IF ~IsLast(Rd(h, block).size_) /\ ~IsBusy(Rd(h, next_block).size_)
    THEN MergeInto(RemoveBlock(h, next_block), block, next_block)
    ELSE h

\* PushBlock: last_block_ or the next block's previous_, SetBusy(false), InsertBlock.
PushBlockLink(h, merged_block) ==
    IF IsLast(Rd(h, merged_block).size_)
    THEN [h EXCEPT !.last_block_ = merged_block]
    ELSE Wr(h, BlockEnd(h, merged_block),
            [Rd(h, BlockEnd(h, merged_block)) EXCEPT !.previous_ = merged_block])

PushBlockInsert(h, merged_block) ==
    InsertBlock(Wr(h, merged_block, [Rd(h, merged_block) EXCEPT !.size_ = SetBusy(@, FALSE)]),
                merged_block)

PushBlock(h, block) ==
    LET merged_block == IF MergesPrevious(h, block) THEN Rd(h, block).previous_ ELSE block
    IN PushBlockInsert(
           PushBlockLink(
               PushBlockMergeNext(PushBlockMergePrevious(h, block), block, BlockEnd(h, block)),
               merged_block),
           merged_block)

\* SplitBlock: set up the remaining block behind the first size bytes.
SplitBlockRemaining(h, block, size, remaining_block) ==
    Wr(h, remaining_block,
       [Rd(h, remaining_block) EXCEPT
           !.previous_ = block,
           !.size_ = SetSize(SetLast(SetBusy(@, FALSE), IsLast(Rd(h, block).size_)),
                             GetSize(Rd(h, block).size_) - size)])

\* SplitBlock: shrink the original block; SYNTROPY_ASSERT(block->IsBusy())
SplitBlockShrink(h, block, size) ==
    [Wr(h, block, [Rd(h, block) EXCEPT !.size_ = SetLast(SetSize(@, size), FALSE)])
        EXCEPT !.asserted = @ \/ ~IsBusy(Rd(h, block).size_)]

SplitBlock(h, block, size) ==
    IF GetSize(Rd(h, block).size_) > size + kMinimumBlockSize
    THEN PushBlock(SplitBlockShrink(SplitBlockRemaining(h, block, size, block + size), block, size),
                   block + size)
    ELSE h

\* pool_.Allocate(size): bump the untouched tail of the arena, null when it does not fit.
PoolAllocate(h, size) ==
    IF h.head + size <= ArenaBase + Capacity THEN h.head ELSE NULL

\* The first non-empty free list at or above index, NumFreeLists when none.
RECURSIVE FirstFreeList(_, _)
FirstFreeList(h, index) ==
    IF index < NumFreeLists /\ h.free_lists_[index] = NULL
    THEN FirstFreeList(h, index + 1)
    ELSE index

\* The size GetFreeBlockBySize looks for: header added, minimum size, flag bits clear.
RoundedSize(size) == Ceil(Max(size + HeaderSize, kMinimumBlockSize), kSizeMask + 1)

\* GetFreeBlockBySize, no free block: the new block's header, carved behind last_block_.
CarveBlock(h, block, size) ==
    Wr(h, block,
       [Rd(h, block) EXCEPT !.size_ = SetLast(SetBusy(SetSize(@, size), TRUE), TRUE),
                            !.previous_ = h.last_block_])

\* GetFreeBlockBySize, no free block: the old last block stops being last.
CarveBlockAppend(h, block, size, last_block) ==
    [(IF last_block # NULL
      THEN Wr(h, last_block, [Rd(h, last_block) EXCEPT !.size_ = SetLast(@, FALSE)])
      ELSE h)
        EXCEPT !.last_block_ = block, !.head = @ + size]

GetFreeBlockAt(h, size, index, block) ==
    IF index < NumFreeLists
    THEN [h |-> SplitBlock(PopBlock(h, index), h.free_lists_[index], size),
          block |-> h.free_lists_[index], carved |-> FALSE]
    ELSE IF block = NULL
    THEN [h |-> Fault(h, "null_deref"), block |-> NULL, carved |-> FALSE]
    ELSE [h |-> CarveBlockAppend(CarveBlock(h, block, size), block, size, h.last_block_),
          block |-> block, carved |-> TRUE]

\* GetFreeBlockBySize: the heap after the call, the block returned, and whether it was carved.
GetFreeBlockBySize(h, request) ==
    GetFreeBlockAt(h, RoundedSize(request),
                   FirstFreeList(h, GetFreeListIndexBySize(RoundedSize(request))),
                   PoolAllocate(h, RoundedSize(request)))

\* Free(block): the header precedes the payload.
FreeBlock(h, ptr) == PushBlock(h, ptr - HeaderSize)

HeapInit ==
    [mem |-> <<>>,
     free_lists_ |-> [i \in 0..(NumFreeLists - 1) |-> NULL],
     last_block_ |-> NULL,
     head |-> ArenaBase,
     fault |-> "none",
     asserted |-> FALSE]

NoRet == [op |-> "none", block |-> NULL, request |-> 0, alignment |-> 1, size |-> 0, carved |-> FALSE]

NoCoal == [phase |-> "idle", a |-> NULL, asize |-> 0, b |-> NULL, bsize |-> 0, first |-> "none"]

TlsfReady == heap.fault = "none" /\ tsteps < TlsfMaxOps

\* The run: allocate A, allocate B right behind it, free both, request |A| + |B| - header.
CoalAfterAllocate(r, request) ==
    IF coal.phase = "freed2" /\ request = coal.asize + coal.bsize - HeaderSize
    THEN [coal EXCEPT !.phase = "done"]
    ELSE IF coal.phase = "a" /\ r.block = coal.a + coal.asize
    THEN [coal EXCEPT !.phase = "ab", !.b = r.block, !.bsize = GetSize(Rd(r.h, r.block).size_)]
    ELSE [NoCoal EXCEPT !.phase = "a", !.a = r.block, !.asize = GetSize(Rd(r.h, r.block).size_)]

CoalAfterFault(request) ==
    IF coal.phase = "freed2" /\ request = coal.asize + coal.bsize - HeaderSize
    THEN [coal EXCEPT !.phase = "failed"]
    ELSE NoCoal

CoalAfterFree(block) ==
    IF coal.phase = "ab" /\ block \in {coal.a, coal.b}
    THEN [coal EXCEPT !.phase = "freed1", !.first = IF block = coal.a THEN "a" ELSE "b"]
    ELSE IF coal.phase = "freed1" /\ block = (IF coal.first = "a" THEN coal.b ELSE coal.a)
    THEN [coal EXCEPT !.phase = "freed2"]
    ELSE NoCoal

\* The run on a fresh arena: allocate A, allocate B, free both, then allocate again.
NoFresh == [phase |-> "none", begin |-> NULL, asize |-> 0, bsize |-> 0]

FreshAfterAllocate ==
    IF coal.phase = "freed2" /\ tsteps = 4
    THEN [phase |-> "served", begin |-> coal.a, asize |-> coal.asize, bsize |-> coal.bsize]
    ELSE NoFresh

\* The caller's view of an Allocate whose GetFreeBlockBySize gave r.
AllocateResult(r, request, size, alignment) ==
    /\ heap' = r.h
    /\ tsteps' = tsteps + 1
    /\ fresh' = FreshAfterAllocate
    /\ IF r.block = NULL
       THEN /\ ret' = [NoRet EXCEPT !.op = "fault", !.request = size, !.alignment = alignment]
            /\ coal' = CoalAfterFault(request)
            /\ UNCHANGED live
       ELSE /\ ret' = [op |-> "alloc", block |-> r.block, request |-> size,
                       alignment |-> alignment,
                       size |-> GetSize(Rd(r.h, r.block).size_), carved |-> r.carved]
            /\ live' = live \cup {[block |-> r.block, size |-> GetSize(Rd(r.h, r.block).size_)]}
            /\ coal' = CoalAfterAllocate(r, request)

\* request is what GetFreeBlockBySize is asked for, size what the caller asked for.
DoAllocate(request, size, alignment) ==
    AllocateResult(GetFreeBlockBySize(heap, request), request, size, alignment)

\* void* Allocate(size_t size)
TlsfAllocate(size) ==
    /\ TlsfReady
    /\ DoAllocate(size, size, 1)
    /\ UNCHANGED <<blk, blive, bret, quota, ctx, bump, own, thr, aln, lsf, vmr, lvm, idx, lin, esf>>

\* void* Allocate(size_t size, size_t alignment)
TlsfAllocateAligned(size, alignment) ==
    /\ TlsfReady
    /\ DoAllocate(size + alignment, size, alignment)
    /\ UNCHANGED <<blk, blive, bret, quota, ctx, bump, own, thr, aln, lsf, vmr, lvm, idx, lin, esf>>

\* Allocate(|A| + |B| - header) once the adjacent blocks A and B have both been freed.
TlsfAllocateMerged ==
    /\ TlsfReady
    /\ coal.phase = "freed2"
    /\ DoAllocate(coal.asize + coal.bsize - HeaderSize, coal.asize + coal.bsize - HeaderSize, 1)
    /\ UNCHANGED <<blk, blive, bret, quota, ctx, bump, own, thr, aln, lsf, vmr, lvm, idx, lin, esf>>

\* The caller's view of Free(block) on the live block b.
FreeResult(b) ==
    /\ heap' = FreeBlock(heap, BlockBegin(b.block))
    /\ live' = live \ {b}
    /\ ret' = [NoRet EXCEPT !.op = "free", !.block = b.block, !.size = b.size]
    /\ coal' = CoalAfterFree(b.block)
    /\ fresh' = NoFresh
    /\ tsteps' = tsteps + 1

\* void Free(void* block), called on a live block
TlsfFree(b) ==
    /\ TlsfReady
    /\ b \in live
    /\ FreeResult(b)
    /\ UNCHANGED <<blk, blive, bret, quota, ctx, bump, own, thr, aln, lsf, vmr, lvm, idx, lin, esf>>

\* Longer runs over fewer request sizes.
TlsfLongMaxOps == 10
LongReqSizes == {16, 48}

TlsfLongReady == heap.fault = "none" /\ tsteps < TlsfLongMaxOps

\* void* Allocate(size_t size), in a longer run
TlsfLongAllocate(size) ==
    /\ TlsfLongReady
    /\ DoAllocate(size, size, 1)
    /\ UNCHANGED <<blk, blive, bret, quota, ctx, bump, own, thr, aln, lsf, vmr, lvm, idx, lin, esf>>

\* void Free(void* block) on a live block, in a longer run
TlsfLongFree(b) ==
    /\ TlsfLongReady
    /\ b \in live
    /\ FreeResult(b)
    /\ UNCHANGED <<blk, blive, bret, quota, ctx, bump, own, thr, aln, lsf, vmr, lvm, idx, lin, esf>>

(***************************************************************************)
(* BLOCK ALLOCATOR / MONOTONIC BLOCK ALLOCATOR                             *)
(***************************************************************************)

\* Memory::GetAllocationGranularity(): the page size, scaled.
AllocationGranularity == 4
BlockMaxOps == 7

\* Constructor arguments and the base addresses Memory::Reserve may return.
BlockKinds == {"block", "monotonic"}
CapacityArgs == {16, 20}
BlockSizeArgs == {3, 8}
ReserveBases == {32, 36}

\* BlockAllocator(capacity, block_size) / MonotonicBlockAllocator(capacity, block_size)
BlockConstruct(kind, capacity, block_size, base) ==
    LET bs == Ceil(block_size, AllocationGranularity)
    IN [kind |-> kind,
        block_size_ |-> bs,
        capacity_ |-> Ceil(capacity, bs),
        reserved |-> capacity,          \* memory_.Reserve(capacity)
        base_ |-> base,
        head_ |-> base,
        free |-> <<>>,                  \* free stack [free_base_, free_head_) / free_ list, top last
        committed |-> {},               \* pages the provider holds committed
        trapped |-> FALSE,              \* a SYNTROPY_ASSERT trapped
        peak |-> 0,                     \* the most blocks that were live at once (ghost)
        steps |-> 0]

BlkIdle == BlockConstruct("block", 16, 8, 32)

NoBret == [op |-> "none", block |-> NULL, live_before |-> 0, commit_called |-> FALSE, recycled |-> FALSE]


\* A GetSize that reports the high-water mark for both allocators.
BlockGetSizeHighWater(a) == a.head_ - a.base_

\* GetSize()
BlockGetSize(a) ==
    IF a.kind = "block"
    THEN (a.head_ - a.base_) - Len(a.free) * a.block_size_
    ELSE a.head_ - a.base_

\* ContainsAddress(address)
ContainsAddress(a, address) == address - a.base_ >= 0 /\ a.head_ - address > 0

\* The pages holding at least one byte of [address, address + size).
PagesOf(address, size) ==
    {p \in Floor(address, AllocationGranularity)..(address + size - 1) : p % AllocationGranularity = 0}

\* Memory::Commit / Memory::Decommit; a failed call changes nothing.
Commit(a, address, size, ok) ==
    IF ok THEN [a EXCEPT !.committed = @ \cup PagesOf(address, size)] ELSE a

Decommit(a, address, size) == [a EXCEPT !.committed = @ \ PagesOf(address, size)]


\* A BlockAllocator::Allocate that hands a popped block out as Free left it.
BlockAllocatorAllocateNoRecommit(a, commit_ok) ==
    IF a.free = <<>>
    THEN LET a1 == [a EXCEPT !.head_ = a.head_ + a.block_size_]
         IN [a |-> Commit(a1, a.head_, a.block_size_, commit_ok), block |-> a.head_,
             assert_ok |-> BlockGetSize(a1) <= a.capacity_, commit_called |-> TRUE, recycled |-> FALSE]
    ELSE [a |-> [a EXCEPT !.free = SubSeq(a.free, 1, Len(a.free) - 1)],
          block |-> a.free[Len(a.free)],
          assert_ok |-> TRUE, commit_called |-> FALSE, recycled |-> TRUE]

\* void* BlockAllocator::Allocate(size) with size = block_size_:
\* the allocator after the call and the block returned.
BlockAllocatorAllocate(a, commit_ok) ==
    IF a.free = <<>>
    THEN LET a1 == [a EXCEPT !.head_ = a.head_ + a.block_size_]
         IN [a |-> Commit(a1, a.head_, a.block_size_, commit_ok), block |-> a.head_,
             assert_ok |-> BlockGetSize(a1) <= a.capacity_, commit_called |-> TRUE, recycled |-> FALSE]
    ELSE LET block == a.free[Len(a.free)]
             a1 == [a EXCEPT !.free = SubSeq(a.free, 1, Len(a.free) - 1)]
         IN [a |-> Commit(a1, block, a.block_size_, commit_ok), block |-> block,
             assert_ok |-> TRUE, commit_called |-> TRUE, recycled |-> TRUE]

\* void* MonotonicBlockAllocator::Allocate()
MonotonicAllocate(a, commit_ok) ==
    IF a.free # <<>>
    THEN [a |-> [a EXCEPT !.free = SubSeq(a.free, 1, Len(a.free) - 1)],
          block |-> a.free[Len(a.free)],
          assert_ok |-> TRUE, commit_called |-> FALSE, recycled |-> TRUE]
    ELSE LET a1 == [Commit(a, a.head_, a.block_size_, commit_ok) EXCEPT !.head_ = a.head_ + a.block_size_]
         IN [a |-> a1, block |-> a.head_,
             assert_ok |-> BlockGetSize(a1) <= a.capacity_, commit_called |-> TRUE, recycled |-> FALSE]

\* A BlockAllocator::Free that saves the address of the block twice.
BlockAllocatorFreeTwice(a, ptr) ==
    Decommit([a EXCEPT !.free = Append(Append(@, Floor(ptr, a.block_size_)), Floor(ptr, a.block_size_))],
             Floor(ptr, a.block_size_), a.block_size_)

\* void BlockAllocator::Free(void* block)
BlockAllocatorFree(a, ptr) ==
    LET block == Floor(ptr, a.block_size_)       \* Memory::AlignDown(block, block_size_)
    IN Decommit([a EXCEPT !.free = Append(@, block)], block, a.block_size_)

\* void MonotonicBlockAllocator::Free(void* block)
MonotonicFree(a, ptr) ==
    LET block == Floor(ptr, a.block_size_)
    IN [a EXCEPT !.free = Append(@, block)]

BlockReady == ~blk.trapped /\ blk.steps < BlockMaxOps

\* Allocate(); a failed SYNTROPY_ASSERT either traps or, in a build without the check, goes on.
BlockAllocate(commit_ok, trap) ==
    /\ BlockReady
    /\ LET r == IF blk.kind = "block" THEN BlockAllocatorAllocate(blk, commit_ok)
                                      ELSE MonotonicAllocate(blk, commit_ok)
       IN IF ~r.assert_ok /\ trap
          THEN /\ blk' = [blk EXCEPT !.trapped = TRUE, !.steps = @ + 1]
               /\ bret' = [NoBret EXCEPT !.op = "trap", !.live_before = Cardinality(blive)]
               /\ UNCHANGED blive
          ELSE /\ blk' = [r.a EXCEPT !.steps = @ + 1,
                                      !.peak = IF Cardinality(blive \cup {r.block}) > @
                                               THEN Cardinality(blive \cup {r.block}) ELSE @]
               /\ bret' = [op |-> "alloc", block |-> r.block, live_before |-> Cardinality(blive),
                           commit_called |-> r.commit_called, recycled |-> r.recycled]
               /\ blive' = blive \cup {r.block}
    /\ UNCHANGED <<heap, live, ret, coal, tsteps, fresh, quota, ctx, bump, own, thr, aln, lsf, vmr, lvm, idx, lin, esf>>

\* Free(ptr) with ptr inside a live block.
BlockFree(b, offset) ==
    /\ BlockReady
    /\ b \in blive
    /\ offset \in 0..(blk.block_size_ - 1)
    /\ IF ~ContainsAddress(blk, b + offset)
       THEN blk' = [blk EXCEPT !.trapped = TRUE, !.steps = @ + 1]
       ELSE blk' = [(IF blk.kind = "block" THEN BlockAllocatorFree(blk, b + offset)
                                           ELSE MonotonicFree(blk, b + offset))
                    EXCEPT !.steps = @ + 1]
    /\ blive' = blive \ {b}
    /\ bret' = [NoBret EXCEPT !.op = "free", !.block = b, !.live_before = Cardinality(blive)]
    /\ UNCHANGED <<heap, live, ret, coal, tsteps, fresh, quota, ctx, bump, own, thr, aln, lsf, vmr, lvm, idx, lin, esf>>

BlkInits ==
    {[BlockConstruct(k, c, s, b) EXCEPT !.trapped = FALSE] :
        k \in BlockKinds, c \in CapacityArgs, s \in BlockSizeArgs, b \in ReserveBases}

(***************************************************************************)
(* QUOTA ALLOCATOR                                                         *)
(***************************************************************************)

Quota == 4
QuotaMaxOps == 6

\* Sizes requested, and how many bytes more than requested the underlying
\* allocator may hand back.
QuotaSizes == 1..(Quota + 1)
Slack == {0, 1}

\* What TAllocator::Allocate(size, alignment) may return: an empty block (0 bytes)
\* or a block of at least size bytes.
UnderlyingResults(size) == {0} \cup {size + e : e \in Slack}

QuotaInit ==
    [quota_ |-> Quota,
     allocation_size_ |-> 0,
     outstanding |-> {},        \* blocks held on allocator_ (ghost): id, requested and actual size
     forwarded |-> 0,           \* number of calls made to allocator_.Allocate (ghost)
     last |-> [op |-> "none", size |-> 0, before |-> 0, result |-> 0, forwarded |-> FALSE,
               held |-> {}],
     steps |-> 0]

FreshId(q) == CHOOSE i \in 1..(QuotaMaxOps + 2) : i \notin {b.id : b \in q.outstanding}

\* (allocation_size_ + size) <= quota_
QuotaAdmitsNoSize(q, size) == q.allocation_size_ <= q.quota_

QuotaAdmits(q, size) == (q.allocation_size_ + size) <= q.quota_

\* A rejected request that is still charged to the quota.
QuotaRejectCharged(q, size) ==
    [q EXCEPT !.allocation_size_ = @ + size,
              !.last = [op |-> "alloc", size |-> size, before |-> q.allocation_size_,
                        result |-> 0, forwarded |-> FALSE, held |-> q.outstanding]]

\* QuotaAllocator::Allocate when the request is over the quota: return {}.
QuotaReject(q, size) ==
    [q EXCEPT !.last = [op |-> "alloc", size |-> size, before |-> q.allocation_size_,
                        result |-> 0, forwarded |-> FALSE, held |-> q.outstanding]]

\* QuotaAllocator::Allocate when the request is admitted: block is what allocator_ returned.
QuotaForward(q, size, block) ==
    [q EXCEPT !.allocation_size_ = @ + block,        \* allocation_size_ += Size(block)
              !.outstanding = IF block = 0 THEN @
                              ELSE @ \cup {[id |-> FreshId(q), requested |-> size, size |-> block]},
              !.forwarded = @ + 1,
              !.last = [op |-> "alloc", size |-> size, before |-> q.allocation_size_,
                        result |-> block, forwarded |-> TRUE, held |-> q.outstanding]]

\* RWByteSpan QuotaAllocator::Allocate(Bytes size, Alignment alignment)
QuotaAllocate(size, block) ==
    /\ quota.steps < QuotaMaxOps
    /\ block \in UnderlyingResults(size)
    /\ quota' = [(IF QuotaAdmits(quota, size)
                  THEN QuotaForward(quota, size, block)
                  ELSE QuotaReject(quota, size)) EXCEPT !.steps = @ + 1]
    /\ UNCHANGED <<heap, live, ret, coal, tsteps, fresh, blk, blive, bret, ctx, bump, own, thr, aln, lsf, vmr, lvm, idx, lin, esf>>

\* void QuotaAllocator::Deallocate(const RWByteSpan& block, Alignment alignment),
\* on a block Allocate returned and that was not deallocated since.
QuotaDeallocate(b) ==
    /\ quota.steps < QuotaMaxOps
    /\ b \in quota.outstanding
    /\ quota' = [quota EXCEPT !.outstanding = @ \ {b},           \* allocator_.Deallocate(block, alignment)
                              !.allocation_size_ = @ - b.size,   \* allocation_size_ -= Size(block)
                              !.last = [op |-> "dealloc", size |-> b.size, before |-> quota.allocation_size_,
                                        result |-> 0, forwarded |-> TRUE, held |-> quota.outstanding],
                              !.steps = @ + 1]
    /\ UNCHANGED <<heap, live, ret, coal, tsteps, fresh, blk, blive, bret, ctx, bump, own, thr, aln, lsf, vmr, lvm, idx, lin, esf>>

\* QuotaAllocator::DeallocateAll: return allocator_.DeallocateAll(block), where block
\* names nothing; allocator_ drops every block, allocation_size_ is not written.
QuotaDeallocateAllOn(q) ==
    [q EXCEPT !.outstanding = {},
              !.last = [op |-> "dealloc_all", size |-> 0, before |-> q.allocation_size_,
                        result |-> 0, forwarded |-> TRUE, held |-> q.outstanding]]

\* void QuotaAllocator::DeallocateAll()
QuotaDeallocateAll ==
    /\ quota.steps < QuotaMaxOps
    /\ quota' = [QuotaDeallocateAllOn(quota) EXCEPT !.steps = @ + 1]
    /\ UNCHANGED <<heap, live, ret, coal, tsteps, fresh, blk, blive, bret, ctx, bump, own, thr, aln, lsf, vmr, lvm, idx, lin, esf>>

(***************************************************************************)
(* MEMORY CONTEXT (scoped default memory resource), one thread             *)
(***************************************************************************)

ContextMaxDepth == 4

\* GetSystemMemoryResource() and the other memory resources of the program.
SystemMemoryResource == "system"
MemoryResources == {SystemMemoryResource, "r1", "r2"}

\* The thread-local slot of GetScopeMemoryResource() starts at the system resource.
ContextInit ==
    [default_memory_resource_ |-> SystemMemoryResource,
     contexts |-> <<>>,     \* live MemoryContext objects, innermost last
     last |-> [op |-> "none", expected |-> SystemMemoryResource]]

\* GetDefaultMemoryResource()
GetDefaultMemoryResource(c) == c.default_memory_resource_

\* A setter that hands back the resource it was given.
SetDefaultReturnsNew(c, memory_resource) ==
    [c |-> [c EXCEPT !.default_memory_resource_ = memory_resource], previous |-> memory_resource]

\* SetDefaultMemoryResource(memory_resource): the slot after the call and the value returned.
SetDefaultMemoryResource(c, memory_resource) ==
    [c |-> [c EXCEPT !.default_memory_resource_ = memory_resource],
     previous |-> GetDefaultMemoryResource(c)]

\* MemoryContext::MemoryContext(MemoryResource& memory_resource)
ContextConstruct(memory_resource) ==
    /\ Len(ctx.contexts) < ContextMaxDepth
    /\ LET r == SetDefaultMemoryResource(ctx, memory_resource)
       IN ctx' = [r.c EXCEPT
                     !.contexts = Append(@, [resource |-> memory_resource,
                                             previous_memory_resource_ |-> r.previous,
                                             current_at_construction |-> ctx.default_memory_resource_]),
                     !.last = [op |-> "construct", expected |-> memory_resource]]
    /\ UNCHANGED <<heap, live, ret, coal, tsteps, fresh, blk, blive, bret, quota, bump, own, thr, aln, lsf, vmr, lvm, idx, lin, esf>>

\* MemoryContext::~MemoryContext() of the innermost live context (LIFO nesting)
ContextDestroy ==
    /\ ctx.contexts # <<>>
    /\ LET top == ctx.contexts[Len(ctx.contexts)]
           r == SetDefaultMemoryResource(ctx, top.previous_memory_resource_)
       IN ctx' = [r.c EXCEPT !.contexts = SubSeq(@, 1, Len(@) - 1),
                             !.last = [op |-> "destroy", expected |-> top.current_at_construction]]
    /\ UNCHANGED <<heap, live, ret, coal, tsteps, fresh, blk, blive, bret, quota, bump, own, thr, aln, lsf, vmr, lvm, idx, lin, esf>>

(***************************************************************************)
(* UNCHUNKED BUMP ALLOCATORS: LinearAllocator, SequentialMemoryResource    *)
(***************************************************************************)

BumpRangeSize == 12
BumpMaxRun == 2
BumpMaxWarmup == 2

BumpKinds == {"LinearAllocator", "SequentialMemoryResource"}
BumpBases == {32, 35}
BumpSizes == {1, 3, 6}
BumpAlignments == {1, 4}

\* A run of the rewind scenario: idle -> recording (after SaveState) ->
\* replaying (after RestoreState).
BumpConstruct(kind, begin) ==
    [kind |-> kind,
     memory_range_ |-> [begin |-> begin, end |-> begin + BumpRangeSize],
     head_ |-> begin,
     trapped |-> FALSE,
     phase |-> "idle",
     warmup |-> 0,
     state |-> NULL,            \* the value SaveState() returned
     at_save |-> <<>>,          \* <<memory_range_, head_>> when SaveState() was called
     first |-> <<>>,            \* the recorded run: size, alignment, block returned
     second |-> <<>>]           \* the blocks returned when the run is repeated

BumpInits == {BumpConstruct(k, b) : k \in BumpKinds, b \in BumpBases}

\* MemoryAddress::GetAligned(alignment), alignment a power of two
GetAligned(address, alignment) == Ceil(address, alignment)

EmptyRange == [begin |-> NULL, end |-> NULL]

\* LinearAllocator::Allocate(size, alignment) / SequentialMemoryResource::Allocate(size, alignment)
BumpAllocateOn(a, size, alignment) ==
    LET block == GetAligned(a.head_, alignment)
        head == block + size
    IN IF head <= a.memory_range_.end
       THEN [a |-> [a EXCEPT !.head_ = head], block |-> [begin |-> block, end |-> head]]
       ELSE [a |-> a, block |-> EmptyRange]

\* SaveState()
SaveState(a) == a.head_

\* A RestoreState that rewinds to the start of the range.
RestoreStateToBegin(a, head) ==
    IF head >= a.memory_range_.begin /\ head <= a.memory_range_.end
    THEN [a EXCEPT !.head_ = a.memory_range_.begin]
    ELSE [a EXCEPT !.trapped = TRUE]

\* RestoreState(head)
RestoreState(a, head) ==
    IF head >= a.memory_range_.begin /\ head <= a.memory_range_.end
    THEN [a EXCEPT !.head_ = head]
    ELSE [a EXCEPT !.trapped = TRUE]        \* SYNTROPY_ASSERT

\* Allocate(size, alignment), before a state is saved
BumpAllocate(size, alignment) ==
    /\ bump.phase = "idle" /\ ~bump.trapped
    /\ bump.warmup < BumpMaxWarmup
    /\ bump' = [BumpAllocateOn(bump, size, alignment).a EXCEPT !.warmup = @ + 1]
    /\ UNCHANGED <<heap, live, ret, coal, tsteps, fresh, blk, blive, bret, quota, ctx, own, thr, aln, lsf, vmr, lvm, idx, lin, esf>>

\* s = SaveState()
BumpSave ==
    /\ bump.phase = "idle" /\ ~bump.trapped
    /\ bump' = [bump EXCEPT !.phase = "recording",
                            !.state = SaveState(bump),
                            !.at_save = <<bump.memory_range_, bump.head_>>]
    /\ UNCHANGED <<heap, live, ret, coal, tsteps, fresh, blk, blive, bret, quota, ctx, own, thr, aln, lsf, vmr, lvm, idx, lin, esf>>

\* Allocate(size, alignment), one of the N allocations after SaveState()
BumpRecord(size, alignment) ==
    /\ bump.phase = "recording" /\ ~bump.trapped
    /\ Len(bump.first) < BumpMaxRun
    /\ LET r == BumpAllocateOn(bump, size, alignment)
       IN bump' = [r.a EXCEPT !.first = Append(@, [size |-> size, alignment |-> alignment,
                                                   block |-> r.block])]
    /\ UNCHANGED <<heap, live, ret, coal, tsteps, fresh, blk, blive, bret, quota, ctx, own, thr, aln, lsf, vmr, lvm, idx, lin, esf>>

\* RestoreState(s)
BumpRestore ==
    /\ bump.phase = "recording" /\ ~bump.trapped
    /\ bump' = [RestoreState(bump, bump.state) EXCEPT !.phase = "replaying"]
    /\ UNCHANGED <<heap, live, ret, coal, tsteps, fresh, blk, blive, bret, quota, ctx, own, thr, aln, lsf, vmr, lvm, idx, lin, esf>>

\* The next Allocate of the repeated run, with the recorded size and alignment
BumpReplay ==
    /\ bump.phase = "replaying" /\ ~bump.trapped
    /\ Len(bump.second) < Len(bump.first)
    /\ LET call == bump.first[Len(bump.second) + 1]
           r == BumpAllocateOn(bump, call.size, call.alignment)
       IN bump' = [r.a EXCEPT !.second = Append(@, r.block)]
    /\ UNCHANGED <<heap, live, ret, coal, tsteps, fresh, blk, blive, bret, quota, ctx, own, thr, aln, lsf, vmr, lvm, idx, lin, esf>>

(***************************************************************************)
(* BUMP ALLOCATORS WITH Owns: LinearAllocator, LinearMemoryResource,       *)
(* StackAllocator                                                          *)
(***************************************************************************)

OwnMaxOps == 4
OwnUnderlyingSize == 136

OwnKinds == {"LinearAllocator", "LinearMemoryResource", "StackAllocator"}
OwnSizes == {1, 3, 6}
OwnAlignments == {1, 16}
\* the alignments asked of each kind: 4 leaves padding inside the LinearAllocator's range,
\* 16 leaves padding after a chunk header
OwnAlignmentsOf(kind) == IF kind = "LinearAllocator" THEN {1, 4} ELSE OwnAlignments

\* BytesOf<LinearMemoryResource::Chunk>() and SizeOf<StackAllocator::Chunk>(), 64-bit
LinearChunkHeader == 16
StackChunkHeader == 56

\* The chunk_size / granularity constructor argument, per kind.
OwnGranularity(kind) == IF kind = "StackAllocator" THEN 64 ELSE 32

\* Where the underlying allocator places its first block, and the unused bytes
\* it leaves between two blocks.
UnderlyingBegin == 64
UnderlyingGap == 8

ChunkHeader(a) == IF a.kind = "StackAllocator" THEN StackChunkHeader ELSE LinearChunkHeader

OwnNoLast == [op |-> "none", size |-> 0, alignment |-> 0, stamp |-> 0]

\* The allocator after construction. The LinearAllocator is given the range
\* [begin, begin + BumpRangeSize); the chunked allocators start without a chunk.
OwnConstruct(kind, begin) ==
    [kind |-> kind,
     memory_range_ |-> IF kind = "LinearAllocator"
                       THEN [begin |-> begin, end |-> begin + BumpRangeSize]
                       ELSE EmptyRange,
     head_ |-> IF kind = "LinearAllocator" THEN begin ELSE NULL,
     chunk_size_ |-> OwnGranularity(kind),
     chunks |-> <<>>,               \* the chain, chunk_ last: begin, end_, payload begin, free begin
     underlying |-> UnderlyingBegin, \* where the underlying allocator places its next block
     trapped |-> FALSE,
     liveb |-> {},                  \* blocks returned and not released (ghost), with their stamps
     checkpoints |-> {},            \* values SaveState() / Checkpoint() returned (ghost)
     obtained |-> <<>>,             \* chunks the underlying allocator granted, by address (ghost)
     released |-> <<>>,             \* chunks handed to the underlying Deallocate, in order (ghost)
     destroyed |-> FALSE,           \* the destructor has run
     last |-> OwnNoLast,            \* the last operation and its arguments (ghost)
     stamp |-> 0,
     steps |-> 0]

OwnInits == {OwnConstruct(k, b) : k \in OwnKinds, b \in BumpBases}

\* MemoryRange::Contains(block)
RangeContains(range, block) == range.begin <= block.begin /\ block.end <= range.end

\* allocator_.Allocate(size) / memory_resource_.Allocate(size): a block or nothing.
UnderlyingAllocate(a, size, ok) ==
    IF ok /\ a.underlying + size <= UnderlyingBegin + OwnUnderlyingSize
    THEN [begin |-> a.underlying, end |-> a.underlying + size]
    ELSE EmptyRange


\* A new chunk whose previous_ is left null: the chain behind it is dropped.
LinkChunkNoPrevious(a, block) ==
    [a EXCEPT !.chunks = <<[begin |-> block.begin, end_ |-> block.end,
                            payload |-> block.begin + ChunkHeader(a),
                            free |-> block.begin + ChunkHeader(a)]>>,
              !.obtained = Append(@, block.begin),
              !.underlying = block.end + UnderlyingGap]

\* The allocator with a new chunk over block linked in front of the chain.
LinkChunk(a, block) ==
    [a EXCEPT !.chunks = Append(@, [begin |-> block.begin, end_ |-> block.end,
                                    payload |-> block.begin + ChunkHeader(a),
                                    free |-> block.begin + ChunkHeader(a)]),
              !.obtained = Append(@, block.begin),
              !.underlying = block.end + UnderlyingGap]

\* for (; chunk_ != target;) { previous = chunk_->previous_; Deallocate(chunk_); chunk_ = previous; }
\* with the target the n-th chunk of the chain, or nullptr when n = 0
ReleaseChunksDownTo(a, n) ==
    [a EXCEPT !.released = @ \o [i \in 1..(Len(a.chunks) - n) |-> a.chunks[Len(a.chunks) + 1 - i].begin],
              !.chunks = SubSeq(a.chunks, 1, n)]

\* LinearAllocator::Owns
LinearAllocatorOwns(a, block) ==
    block.begin >= a.memory_range_.begin /\ block.end <= a.head_

\* A Deallocate that takes every block for the last one.
LinearAllocatorDeallocateAny(a, block) ==
    IF ~RangeContains(a.memory_range_, block)
    THEN [a EXCEPT !.trapped = TRUE]
    ELSE [a EXCEPT !.head_ = block.begin]

\* LinearAllocator::Deallocate
LinearAllocatorDeallocate(a, block) ==
    IF ~RangeContains(a.memory_range_, block)
    THEN [a EXCEPT !.trapped = TRUE]        \* SYNTROPY_ASSERT
    ELSE IF block.end = a.head_
    THEN [a EXCEPT !.head_ = block.begin]
    ELSE a

\* LinearAllocator::DeallocateAll
LinearAllocatorDeallocateAll(a) == [a EXCEPT !.head_ = a.memory_range_.begin]

\* chunk_: the chunk in front of the chain.
CurrentChunk(a) == a.chunks[Len(a.chunks)]

\* LinearMemoryResource::Allocate, fast path: the block on the current chunk.
LinearMemoryResourceFastBlock(a, size, alignment) ==
    [begin |-> GetAligned(a.head_, alignment), end |-> GetAligned(a.head_, alignment) + size]

\* LinearMemoryResource::Allocate, slow path, given what memory_resource_.Allocate returned.
LinearMemoryResourceOnNewChunk(a, size, alignment, block) ==
    IF block = EmptyRange
    THEN [a |-> a, block |-> EmptyRange]                       \* out of memory
    ELSE [a |-> [LinkChunk(a, block) EXCEPT
                   !.head_ = GetAligned(block.begin + LinearChunkHeader, alignment) + size],
          block |-> [begin |-> GetAligned(block.begin + LinearChunkHeader, alignment),
                     end |-> GetAligned(block.begin + LinearChunkHeader, alignment) + size]]

\* LinearMemoryResource::Allocate(size, alignment)
LinearMemoryResourceAllocate(a, size, alignment, ok) ==
    IF a.chunks # <<>>
       /\ LinearMemoryResourceFastBlock(a, size, alignment).end <= CurrentChunk(a).end_
    THEN [a |-> [a EXCEPT !.head_ = LinearMemoryResourceFastBlock(a, size, alignment).end],
          block |-> LinearMemoryResourceFastBlock(a, size, alignment)]
    ELSE LinearMemoryResourceOnNewChunk(a, size, alignment,
             UnderlyingAllocate(a, Ceil(LinearChunkHeader + size + alignment - 1, a.chunk_size_), ok))

\* LinearMemoryResource::DeallocateAll
LinearMemoryResourceDeallocateAll(a) == [ReleaseChunksDownTo(a, 0) EXCEPT !.head_ = NULL]

\* LinearMemoryResource::Owns
LinearMemoryResourceOwns(a, block) ==
    \E i \in 1..Len(a.chunks) :
        RangeContains([begin |-> a.chunks[i].begin, end |-> a.chunks[i].end_], block)

\* An Align that lets the aligned begin pass the end of the span.
AlignSpanUnclamped(span, alignment) ==
    [begin |-> GetAligned(span.begin, alignment), end |-> span.end]

\* Memory::Align(span, alignment) on a span [begin, end)
AlignSpan(span, alignment) ==
    [begin |-> Min(GetAligned(span.begin, alignment), span.end), end |-> span.end]

\* free_span_ of chunk_ aligned, as StackAllocator::Allocate(chunk, size, alignment) sees it
StackAlignedFree(a, alignment) ==
    AlignSpan([begin |-> CurrentChunk(a).free, end |-> CurrentChunk(a).end_], alignment)

\* StackAllocator::Allocate(chunk, size, alignment) on chunk_
StackAllocateOnChunk(a, size, alignment) ==
    IF a.chunks # <<>>
       /\ StackAlignedFree(a, alignment).end - StackAlignedFree(a, alignment).begin >= size
    THEN [a |-> [a EXCEPT !.chunks[Len(a.chunks)].free = StackAlignedFree(a, alignment).begin + size],
          block |-> [begin |-> StackAlignedFree(a, alignment).begin,
                     end |-> StackAlignedFree(a, alignment).begin + size]]
    ELSE [a |-> a, block |-> EmptyRange]

\* StackAllocator::AllocateChunk and the linking of its result, given what
\* allocator_.Allocate returned.
StackAllocateOnNewChunk(a, size, alignment, chunk_span) ==
    IF chunk_span = EmptyRange
    THEN [a |-> a, block |-> EmptyRange]                       \* out of memory
    ELSE StackAllocateOnChunk(LinkChunk(a, chunk_span), size, alignment)

\* StackAllocator::Allocate(size, alignment)
StackAllocatorAllocate(a, size, alignment, ok) ==
    IF StackAllocateOnChunk(a, size, alignment).block # EmptyRange
    THEN StackAllocateOnChunk(a, size, alignment)
    ELSE StackAllocateOnNewChunk(a, size, alignment,
             UnderlyingAllocate(a, Ceil(size + alignment - 1 + StackChunkHeader, a.chunk_size_), ok))

\* StackAllocator::DeallocateAll
StackAllocatorDeallocateAll(a) == ReleaseChunksDownTo(a, 0)

\* StackAllocator::Owns
StackAllocatorOwns(a, block) ==
    \E i \in 1..Len(a.chunks) :
        RangeContains([begin |-> a.chunks[i].payload, end |-> a.chunks[i].end_], block)

\* StackAllocator::Checkpoint: the chunk_ pointer (its place in the chain and its
\* address) and its free_span_.
StackAllocatorCheckpoint(a) ==
    IF a.chunks = <<>>
    THEN [chunk_ |-> 0, begin |-> NULL, free |-> NULL]
    ELSE [chunk_ |-> Len(a.chunks), begin |-> CurrentChunk(a).begin, free |-> CurrentChunk(a).free]


\* A Rewind that releases the later chunks but leaves free_span_ where it is.
StackAllocatorRewindKeepsFree(a, checkpoint) == ReleaseChunksDownTo(a, checkpoint.chunk_)

\* StackAllocator::Rewind(checkpoint), for a checkpoint whose chunk is in the chain.
StackAllocatorRewind(a, checkpoint) ==
    IF checkpoint.chunk_ = 0
    THEN ReleaseChunksDownTo(a, 0)
    ELSE [ReleaseChunksDownTo(a, checkpoint.chunk_) EXCEPT !.chunks[checkpoint.chunk_].free = checkpoint.free]

\* Allocate(size, alignment) of the allocator's kind: the allocator afterwards and the block.
OwnAllocateOn(a, size, alignment, ok) ==
    CASE a.kind = "LinearAllocator" -> BumpAllocateOn(a, size, alignment)
      [] a.kind = "LinearMemoryResource" -> LinearMemoryResourceAllocate(a, size, alignment, ok)
      [] a.kind = "StackAllocator" -> StackAllocatorAllocate(a, size, alignment, ok)

\* Owns(block) of the allocator's kind
Owns(a, block) ==
    CASE a.kind = "LinearAllocator" -> LinearAllocatorOwns(a, block)
      [] a.kind = "LinearMemoryResource" -> LinearMemoryResourceOwns(a, block)
      [] a.kind = "StackAllocator" -> StackAllocatorOwns(a, block)

\* Deallocate(block) of the allocator's kind; the chunked allocators only assert.
OwnDeallocateOn(a, block) ==
    IF a.kind = "LinearAllocator"
    THEN LinearAllocatorDeallocate(a, block)
    ELSE [a EXCEPT !.trapped = ~Owns(a, block)]

\* DeallocateAll() of the allocator's kind
OwnDeallocateAllOn(a) ==
    CASE a.kind = "LinearAllocator" -> LinearAllocatorDeallocateAll(a)
      [] a.kind = "LinearMemoryResource" -> LinearMemoryResourceDeallocateAll(a)
      [] a.kind = "StackAllocator" -> StackAllocatorDeallocateAll(a)

\* The block allocated most recently among the live ones.
LastLive(a) == {b \in a.liveb : \A c \in a.liveb : c.stamp <= b.stamp}

OwnReady == own.steps < OwnMaxOps /\ ~own.trapped /\ ~own.destroyed

\* The allocator after an operation, with the operation counted.
OwnStep(a) == [a EXCEPT !.steps = own.steps + 1, !.stamp = own.stamp + 1, !.last = OwnNoLast]

\* Allocate(size, alignment); a non-empty result is a live block.
OwnAllocate(size, alignment, ok) ==
    /\ OwnReady
    /\ own' = [OwnStep(OwnAllocateOn(own, size, alignment, ok).a) EXCEPT
                 !.last = [OwnNoLast EXCEPT !.op = "allocate", !.size = size, !.alignment = alignment],
                 !.liveb = IF OwnAllocateOn(own, size, alignment, ok).block = EmptyRange
                           THEN @
                           ELSE @ \cup {[block |-> OwnAllocateOn(own, size, alignment, ok).block,
                                         head |-> own.head_,
                                         stamp |-> own.stamp + 1]}]
    /\ UNCHANGED <<heap, live, ret, coal, tsteps, fresh, blk, blive, bret, quota, ctx, bump, thr, aln, lsf, vmr, lvm, idx, lin, esf>>

\* Deallocate(block) of a live block; the last block allocated is released by it.
OwnDeallocate(b) ==
    /\ OwnReady
    /\ b \in own.liveb
    /\ own' = [OwnStep(OwnDeallocateOn(own, b.block)) EXCEPT
                 !.last = [OwnNoLast EXCEPT !.op = "deallocate", !.stamp = b.stamp],
                 !.liveb = @ \ (LastLive(own) \cap {b})]
    /\ UNCHANGED <<heap, live, ret, coal, tsteps, fresh, blk, blive, bret, quota, ctx, bump, thr, aln, lsf, vmr, lvm, idx, lin, esf>>

\* DeallocateAll(): every block is released and every checkpoint invalidated.
OwnDeallocateAll ==
    /\ OwnReady
    /\ own' = [OwnStep(OwnDeallocateAllOn(own)) EXCEPT
                 !.last = [OwnNoLast EXCEPT !.op = "deallocate_all"],
                 !.liveb = {},
                 !.checkpoints = {}]
    /\ UNCHANGED <<heap, live, ret, coal, tsteps, fresh, blk, blive, bret, quota, ctx, bump, thr, aln, lsf, vmr, lvm, idx, lin, esf>>

\* SaveState() / Checkpoint(): the caller keeps the returned value.
OwnSaveState ==
    /\ OwnReady
    /\ own.kind \in {"LinearAllocator", "StackAllocator"}
    /\ own' = [OwnStep(own) EXCEPT
                 !.checkpoints = @ \cup {[state |-> IF own.kind = "LinearAllocator"
                                                    THEN SaveState(own)
                                                    ELSE StackAllocatorCheckpoint(own),
                                          chunks |-> own.chunks,
                                          obtained |-> Len(own.obtained),
                                          stamp |-> own.stamp + 1]}]
    /\ UNCHANGED <<heap, live, ret, coal, tsteps, fresh, blk, blive, bret, quota, ctx, bump, thr, aln, lsf, vmr, lvm, idx, lin, esf>>

\* RestoreState(state) / Rewind(checkpoint) to a kept value: blocks allocated and
\* checkpoints taken after it are released.
OwnRestoreState(c) ==
    /\ OwnReady
    /\ c \in own.checkpoints
    /\ own' = [OwnStep(IF own.kind = "LinearAllocator"
                       THEN RestoreState(own, c.state)
                       ELSE StackAllocatorRewind(own, c.state)) EXCEPT
                 !.last = [OwnNoLast EXCEPT !.op = "rewind", !.stamp = c.stamp],
                 !.liveb = {b \in @ : b.stamp < c.stamp},
                 !.checkpoints = {d \in @ : d.stamp <= c.stamp}]
    /\ UNCHANGED <<heap, live, ret, coal, tsteps, fresh, blk, blive, bret, quota, ctx, bump, thr, aln, lsf, vmr, lvm, idx, lin, esf>>

\* A move constructor that leaves rhs.chunk_ in place.
MovedFromKeepsChunks(a) == a

\* rhs after StackAllocator(StackAllocator&&) / LinearMemoryResource(LinearMemoryResource&&):
\* rhs.chunk_ = nullptr, every other member as it was
MovedFrom(a) == [a EXCEPT !.chunks = <<>>]

\* T b(std::move(a)), then a's destructor: b takes chunk_ (and head_) as they are, and
\* ~T() runs DeallocateAll on the moved-from object. The allocator is b from here on.
OwnMoveConstruct ==
    /\ OwnReady
    /\ own.kind # "LinearAllocator"
    /\ own' = [OwnStep(own) EXCEPT
                 !.last = [OwnNoLast EXCEPT !.op = "move"],
                 !.released = OwnDeallocateAllOn(MovedFrom(own)).released]
    /\ UNCHANGED <<heap, live, ret, coal, tsteps, fresh, blk, blive, bret, quota, ctx, bump, thr, aln, lsf, vmr, lvm, idx, lin, esf>>

\* ~StackAllocator() / ~LinearMemoryResource(): DeallocateAll(), and the object is gone.
OwnDestroy ==
    /\ OwnReady
    /\ own.kind # "LinearAllocator"
    /\ own' = [OwnStep(OwnDeallocateAllOn(own)) EXCEPT
                 !.last = [OwnNoLast EXCEPT !.op = "destroy"],
                 !.destroyed = TRUE,
                 !.liveb = {},
                 !.checkpoints = {}]
    /\ UNCHANGED <<heap, live, ret, coal, tsteps, fresh, blk, blive, bret, quota, ctx, bump, thr, aln, lsf, vmr, lvm, idx, lin, esf>>

(***************************************************************************)
(* THREAD-LOCAL DEFAULT MEMORY RESOURCE AND ALLOCATOR, several threads     *)
(***************************************************************************)

NumThreads == 2
ThreadMaxOps == 3
ThreadMaxDepth == 2

Threads == 1..NumThreads

\* GetSystemAllocator() and another allocator of the program.
SystemAllocator == "system_allocator"
Allocators == {SystemAllocator, "a1"}

\* One variable shared by every thread, where the code has one per thread.
StaticInstance(t) == 1

\* The instance of a `static thread_local` variable the thread t refers to.
ThreadLocalInstance(t) == t

\* Every thread's slots start at the system resource / allocator; no thread is
\* inside a call and no MemoryContext is live.
ThreadsInit ==
    [default_memory_resource_ |-> [i \in Threads |-> SystemMemoryResource],
     default_allocator_ |-> [i \in Threads |-> SystemAllocator],
     contexts |-> [t \in Threads |-> <<>>],     \* previous_memory_resource_ of t's live contexts
     pc |-> [t \in Threads |-> "idle"],
     pending |-> [t \in Threads |-> [op |-> "none", value |-> SystemMemoryResource]],
     last |-> [thread |-> 0,
               memory_resource |-> [t \in Threads |-> SystemMemoryResource],
               allocator |-> [t \in Threads |-> SystemAllocator]],
     steps |-> 0]

\* MemoryResource::GetScopeMemoryResource() as the thread t reads it
GetScopeMemoryResource(th, t) == th.default_memory_resource_[ThreadLocalInstance(t)]

\* BaseAllocator::GetScopeAllocator() as the thread t reads it
GetScopeAllocator(th, t) == th.default_allocator_[ThreadLocalInstance(t)]

\* What every thread would get from GetDefaultMemoryResource() / GetAllocator(),
\* remembered together with the thread that takes the step.
ObservedBy(th, t) ==
    [thread |-> t,
     memory_resource |-> [u \in Threads |-> GetScopeMemoryResource(th, u)],
     allocator |-> [u \in Threads |-> GetScopeAllocator(th, u)]]

ThreadReady(t) == thr.steps < ThreadMaxOps /\ thr.pc[t] = "idle"

\* SetDefaultMemoryResource(memory_resource) / SetAllocator(allocator), first half:
\* the thread reads the previous value of its slot.
ThreadRead(t, op, value) ==
    thr' = [thr EXCEPT !.pc[t] = "write",
                       !.pending[t] = [op |-> op, value |-> value],
                       !.last = ObservedBy(thr, t),
                       !.steps = @ + 1]

\* SetDefaultMemoryResource(memory_resource) called by the thread t
ThreadSetDefaultMemoryResource(t, memory_resource) ==
    /\ ThreadReady(t)
    /\ ThreadRead(t, "set", memory_resource)
    /\ UNCHANGED <<heap, live, ret, coal, tsteps, fresh, blk, blive, bret, quota, ctx, bump, own, aln, lsf, vmr, lvm, idx, lin, esf>>

\* SetAllocator(allocator) called by the thread t
ThreadSetAllocator(t, allocator) ==
    /\ ThreadReady(t)
    /\ ThreadRead(t, "allocator", allocator)
    /\ UNCHANGED <<heap, live, ret, coal, tsteps, fresh, blk, blive, bret, quota, ctx, bump, own, aln, lsf, vmr, lvm, idx, lin, esf>>

\* MemoryContext::MemoryContext(memory_resource) on the thread t
ThreadContextConstruct(t, memory_resource) ==
    /\ ThreadReady(t)
    /\ Len(thr.contexts[t]) < ThreadMaxDepth
    /\ ThreadRead(t, "construct", memory_resource)
    /\ UNCHANGED <<heap, live, ret, coal, tsteps, fresh, blk, blive, bret, quota, ctx, bump, own, aln, lsf, vmr, lvm, idx, lin, esf>>

\* MemoryContext::~MemoryContext() of the innermost context of the thread t
ThreadContextDestroy(t) ==
    /\ ThreadReady(t)
    /\ thr.contexts[t] # <<>>
    /\ ThreadRead(t, "destroy", thr.contexts[t][Len(thr.contexts[t])])
    /\ UNCHANGED <<heap, live, ret, coal, tsteps, fresh, blk, blive, bret, quota, ctx, bump, own, aln, lsf, vmr, lvm, idx, lin, esf>>

\* The contexts of the thread t once its pending call returns.
ContextsAfter(th, t) ==
    CASE th.pending[t].op = "construct" -> Append(th.contexts[t], GetScopeMemoryResource(th, t))
      [] th.pending[t].op = "destroy" -> SubSeq(th.contexts[t], 1, Len(th.contexts[t]) - 1)
      [] OTHER -> th.contexts[t]

\* Second half of the call: the thread stores the new value into its slot and returns
\* the previous one (which a MemoryContext keeps as previous_memory_resource_).
ThreadWrite(t) ==
    /\ thr.pc[t] = "write"
    /\ thr' = [thr EXCEPT
                 !.default_memory_resource_[ThreadLocalInstance(t)] =
                     IF thr.pending[t].op = "allocator" THEN @ ELSE thr.pending[t].value,
                 !.default_allocator_[ThreadLocalInstance(t)] =
                     IF thr.pending[t].op = "allocator" THEN thr.pending[t].value ELSE @,
                 !.contexts[t] = ContextsAfter(thr, t),
                 !.pc[t] = "idle",
                 !.last = ObservedBy(thr, t)]
    /\ UNCHANGED <<heap, live, ret, coal, tsteps, fresh, blk, blive, bret, quota, ctx, bump, own, aln, lsf, vmr, lvm, idx, lin, esf>>

(***************************************************************************)
(* Align ON BYTE SPANS                                                     *)
(***************************************************************************)

AlignMaxOffset == 17
AlignMaxCount == 10

\* The address of a 16-aligned buffer, as the fixture's align16_.
AlignBufferAddress == 32

\* Alignment values: powers of two.
ByteSpanAlignments == {1, 2, 4, 8, 16}

\* ByteSpan{ begin, count } as the range [begin, end)
ByteSpan(begin, count) == [begin |-> begin, end |-> begin + count]

ByteSpans ==
    {ByteSpan(AlignBufferAddress + offset, count) : offset \in 0..AlignMaxOffset, count \in 0..AlignMaxCount}

NoSpan == [begin |-> NULL, end |-> NULL]

AlignInits ==
    {[span |-> span, alignment |-> alignment, result |-> NoSpan, again |-> NoSpan, calls |-> 0] :
        span \in ByteSpans, alignment \in ByteSpanAlignments}

\* result = Align(span, alignment)
AlignCall ==
    /\ aln.calls = 0
    /\ aln' = [aln EXCEPT !.result = AlignSpan(aln.span, aln.alignment), !.calls = 1]
    /\ UNCHANGED <<heap, live, ret, coal, tsteps, fresh, blk, blive, bret, quota, ctx, bump, own, thr, lsf, vmr, lvm, idx, lin, esf>>

\* again = Align(result, alignment)
AlignAgain ==
    /\ aln.calls = 1
    /\ aln' = [aln EXCEPT !.again = AlignSpan(aln.result, aln.alignment), !.calls = 2]
    /\ UNCHANGED <<heap, live, ret, coal, tsteps, fresh, blk, blive, bret, quota, ctx, bump, own, thr, lsf, vmr, lvm, idx, lin, esf>>

(***************************************************************************)
(* LINEAR SEGREGATED FIT ALLOCATOR                                         *)
(***************************************************************************)

LsfMaxPages == 3
LsfMaxOps == 6

\* Constructor arguments: class_size, order, page_size; sizeof(Page) on a 64-bit build.
LsfClassSize == 8
LsfOrder == 6
LsfPageSize == 128
SizeOfPage == 5 * 8

\* Where the page allocator's range begins (a multiple of the page size), and the
\* request sizes of the runs.
LsfBase == 4 * LsfPageSize
LsfSizes == {24, 40}

LsfPageAddresses == {LsfBase + k * LsfPageSize : k \in 0..(LsfMaxPages - 1)}

\* LinearSegregatedFitAllocator::GetListIndexBySize
GetListIndexBySize(size) == (size - 1) \div LsfClassSize

\* Page::GetFirstBlock
GetFirstBlock(page, block_size) == Ceil(page + SizeOfPage, block_size)

\* Page::GetLastBlock(page_size)
GetLastBlock(page, block_size) == Ceil(page + (LsfPageSize - (2 * block_size + 1)), block_size)

\* The free-block chain the Page constructor builds: first block to last block.
RECURSIVE PageFreeChain(_, _, _)
PageFreeChain(block, last_block, block_size) ==
    IF block > last_block THEN <<>>
    ELSE <<block>> \o PageFreeChain(block + block_size, last_block, block_size)

\* Page::Page(block_size, page_size)
PageConstruct(page, block_size) ==
    [next_ |-> NULL, previous_ |-> NULL, block_size_ |-> block_size, allocated_blocks_ |-> 0,
     free |-> PageFreeChain(GetFirstBlock(page, block_size), GetLastBlock(page, block_size), block_size),
     held |-> TRUE]

\* Memory never used as a page.
NoPage ==
    [next_ |-> NULL, previous_ |-> NULL, block_size_ |-> LsfClassSize, allocated_blocks_ |-> 0,
     free |-> <<>>, held |-> FALSE]

LsfInit ==
    [pages |-> [page \in LsfPageAddresses |-> NoPage],
     free_lists_ |-> [i \in 0..(LsfOrder - 1) |-> NULL],
     head_ |-> LsfBase,             \* allocator_: the first page never handed out
     free_pages |-> <<>>,           \* allocator_: the pages freed, last freed last
     blocks |-> {},                 \* blocks handed to the caller and not freed (ghost)
     steps |-> 0]

\* Page::IsFull
PageIsFull(h, page) == h.pages[page].free = <<>>

\* Page::IsEmpty
PageIsEmpty(h, page) == h.pages[page].allocated_blocks_ = 0

\* Page::AllocateBlock
PageAllocateBlock(h, page) ==
    [h EXCEPT !.pages[page].free = Tail(@), !.pages[page].allocated_blocks_ = @ + 1]

\* Page::FreeBlock
PageFreeBlock(h, page, block) ==
    [h EXCEPT !.pages[page].free = <<block>> \o @, !.pages[page].allocated_blocks_ = @ - 1]

\* allocator_.Allocate(): the page freed last, or the next page of the range.
PageAllocatorNext(h) ==
    IF h.free_pages # <<>> THEN h.free_pages[Len(h.free_pages)] ELSE h.head_

PageAllocatorTake(h) ==
    IF h.free_pages # <<>>
    THEN [h EXCEPT !.free_pages = SubSeq(@, 1, Len(@) - 1)]
    ELSE [h EXCEPT !.head_ = @ + LsfPageSize]

\* LinearSegregatedFitAllocator::AllocatePage(block_size)
LsfAllocatePage(h, size) ==
    [PageAllocatorTake(h) EXCEPT
        !.pages[PageAllocatorNext(h)] = PageConstruct(PageAllocatorNext(h), Ceil(size, LsfClassSize)),
        !.free_lists_[GetListIndexBySize(Ceil(size, LsfClassSize))] = PageAllocatorNext(h)]

\* LinearSegregatedFitAllocator::DiscardPage(list_index)
DiscardPage(h, list_index) ==
    IF h.pages[h.free_lists_[list_index]].next_ # NULL
    THEN [h EXCEPT !.pages[h.pages[h.free_lists_[list_index]].next_].previous_ = NULL,
                   !.free_lists_[list_index] = h.pages[h.free_lists_[list_index]].next_]
    ELSE [h EXCEPT !.free_lists_[list_index] = NULL]

\* Allocate: the block is taken from the page; a page left full is discarded.
LsfAllocateOnPage(h, list_index, page) ==
    IF PageIsFull(PageAllocateBlock(h, page), page)
    THEN DiscardPage(PageAllocateBlock(h, page), list_index)
    ELSE PageAllocateBlock(h, page)

\* The page Allocate(size) uses: the head of the class, or a new page.
LsfPageFor(h, size) ==
    IF h.free_lists_[GetListIndexBySize(size)] # NULL
    THEN h.free_lists_[GetListIndexBySize(size)]
    ELSE PageAllocatorNext(h)

\* The block Allocate(size) returns: the first free block of that page.
LsfBlockFor(h, size) ==
    IF h.free_lists_[GetListIndexBySize(size)] # NULL
    THEN Head(h.pages[h.free_lists_[GetListIndexBySize(size)]].free)
    ELSE GetFirstBlock(PageAllocatorNext(h), Ceil(size, LsfClassSize))

\* LinearSegregatedFitAllocator::Allocate(size): the allocator afterwards
LsfAllocateOn(h, size) ==
    IF h.free_lists_[GetListIndexBySize(size)] # NULL
    THEN LsfAllocateOnPage(h, GetListIndexBySize(size), h.free_lists_[GetListIndexBySize(size)])
    ELSE LsfAllocateOnPage(LsfAllocatePage(h, size), GetListIndexBySize(size), PageAllocatorNext(h))

\* FreePage: page->previous_->next_ or the head of the free list
FreePageUnlinkPrevious(h, page) ==
    IF h.pages[page].previous_ # NULL
    THEN [h EXCEPT !.pages[h.pages[page].previous_].next_ = h.pages[page].next_]
    ELSE [h EXCEPT !.free_lists_[GetListIndexBySize(h.pages[page].block_size_)] = h.pages[page].next_]

\* FreePage: page->next_->previous_
FreePageUnlinkNext(h, page) ==
    IF h.pages[page].next_ # NULL
    THEN [h EXCEPT !.pages[h.pages[page].next_].previous_ = h.pages[page].previous_]
    ELSE h

\* LinearSegregatedFitAllocator::FreePage(page)
FreePage(h, page) ==
    [FreePageUnlinkNext(FreePageUnlinkPrevious(h, page), page) EXCEPT
        !.pages[page].held = FALSE,
        !.free_pages = Append(@, page)]

\* RestorePage: page->next_ = free_lists_[list_index]; free_lists_[list_index] = page
RestorePageLink(h, page, list_index) ==
    [h EXCEPT !.pages[page].next_ = h.free_lists_[list_index],
              !.free_lists_[list_index] = page]

\* LinearSegregatedFitAllocator::RestorePage(page)
RestorePage(h, page) ==
    IF h.free_lists_[GetListIndexBySize(h.pages[page].block_size_)] # NULL
    THEN RestorePageLink(
             [h EXCEPT !.pages[h.free_lists_[GetListIndexBySize(h.pages[page].block_size_)]].previous_ = page],
             page, GetListIndexBySize(h.pages[page].block_size_))
    ELSE RestorePageLink(h, page, GetListIndexBySize(h.pages[page].block_size_))

\* Free: after page->FreeBlock(address), given is_full read before it
LsfFreeOnPage(h, page, is_full) ==
    IF PageIsEmpty(h, page) THEN FreePage(h, page)
    ELSE IF is_full THEN RestorePage(h, page)
    ELSE h

\* LinearSegregatedFitAllocator::Free(address): the allocator afterwards
LsfFreeOn(h, address) ==
    LsfFreeOnPage(PageFreeBlock(h, Floor(address, LsfPageSize), address),
                  Floor(address, LsfPageSize),
                  PageIsFull(h, Floor(address, LsfPageSize)))

LsfReady == lsf.steps < LsfMaxOps

\* void* Allocate(size_t size); a new page is asked for only while the range has one.
LsfAllocate(size) ==
    /\ LsfReady
    /\ \/ lsf.free_lists_[GetListIndexBySize(size)] # NULL
       \/ PageAllocatorNext(lsf) \in LsfPageAddresses
    /\ lsf' = [LsfAllocateOn(lsf, size) EXCEPT
                 !.blocks = @ \cup {LsfBlockFor(lsf, size)},
                 !.steps = @ + 1]
    /\ UNCHANGED <<heap, live, ret, coal, tsteps, fresh, blk, blive, bret, quota, ctx, bump, own, thr, aln, vmr, lvm, idx, lin, esf>>

\* void Free(void* address) of a block handed out before
LsfFree(block) ==
    /\ LsfReady
    /\ block \in lsf.blocks
    /\ lsf' = [LsfFreeOn(lsf, block) EXCEPT !.blocks = @ \ {block}, !.steps = @ + 1]
    /\ UNCHANGED <<heap, live, ret, coal, tsteps, fresh, blk, blive, bret, quota, ctx, bump, own, thr, aln, vmr, lvm, idx, lin, esf>>

(***************************************************************************)
(* VirtualMemoryResource (virtual_memory_resource.cpp): pages of a         *)
(* reserved range, recycled through free-list nodes stored in freed pages  *)
(***************************************************************************)
VmrMaxPages == 2
VmrMaxOps == 6
VmrPageSize == 2 ^ 6
VmrPageAlignment == VmrPageSize
SizeOfPointer == 2 ^ 3
\* FreeList: next_, span_ (data, count), unallocated_ (data, count)
SizeOfFreeList == 5 * SizeOfPointer
VmrBase == 4 * VmrPageSize
\* the address of the member free_: the resource object is outside the range it reserves
VmrMember == 2 * VmrPageSize
\* what a read outside a span yields: no page address
VmrGarbage == VmrMember + 1
VmrSizes == {48, 64, 128}
VmrAlignments == {8, 128}

VmrNoBlock == [begin |-> NULL, size |-> 0]
VmrNoLast ==
    [op |-> "none", size |-> 0, alignment |-> 0, block |-> VmrNoBlock, live_before |-> {},
     recyclable |-> FALSE, whole_page |-> FALSE]

\* The resource after construction over a reserved range of `pages` pages.
VmrConstruct(pages) ==
    [virtual_memory_ |-> [begin |-> VmrBase, end |-> VmrBase + pages * VmrPageSize],
     unallocated_ |-> [begin |-> VmrBase, end |-> VmrBase + pages * VmrPageSize],
     free_ |-> NULL,
     nodes |-> [a \in {} |-> NULL],
     committed |-> {},
     block |-> VmrNoBlock,
     trapped |-> FALSE,
     live |-> {},
     last |-> VmrNoLast,
     steps |-> 0]

VmrInits == {VmrConstruct(pages) : pages \in 1..VmrMaxPages}

\* A FreeList written at `address`: span_ has `capacity` pointer slots, numbered from 0;
\* unallocated_ is the slots un_begin .. un_begin + un_count - 1; slot i is entries[i + 1].
VmrSetNode(v, address, node) ==
    [v EXCEPT !.nodes = [a \in (DOMAIN v.nodes) \cup {address} |-> IF a = address THEN node ELSE v.nodes[a]]]

\* Allocate(), a page stored in the head node: DifferenceFront(span_, unallocated_) is the
\* slots before unallocated_, Back(...) the last of them; unallocated_ becomes the
\* intersection of span_ with the slots before that one.
VmrTakeStored(v, trap) ==
    IF v.nodes[v.free_].un_begin = 0
    THEN IF trap
         THEN [v EXCEPT !.trapped = TRUE, !.block = VmrNoBlock]
         ELSE [v EXCEPT !.block = [begin |-> VmrGarbage, size |-> VmrPageSize],
                        !.nodes[v.free_].un_count = 0]
    ELSE [v EXCEPT !.block = [begin |-> v.nodes[v.free_].entries[v.nodes[v.free_].un_begin],
                              size |-> VmrPageSize],
                   !.nodes[v.free_].un_begin = 0,
                   !.nodes[v.free_].un_count = v.nodes[v.free_].un_begin - 1]

\* Allocate(), the head node stores no page: the block starts at &free_.
VmrTakeNode(v) ==
    [v EXCEPT !.block = [begin |-> VmrMember, size |-> VmrPageSize],
              !.free_ = v.nodes[v.free_].next_]

\* Allocate(), no free list: a page off the front of unallocated_.
VmrTakeFresh(v, trap) ==
    IF ~(v.unallocated_.end - v.unallocated_.begin <= VmrPageSize)
    THEN [v EXCEPT !.block = VmrNoBlock]
    ELSE IF v.unallocated_.end - v.unallocated_.begin < VmrPageSize /\ trap
    THEN [v EXCEPT !.trapped = TRUE, !.block = VmrNoBlock]
    ELSE [v EXCEPT !.block = [begin |-> v.unallocated_.begin, size |-> VmrPageSize],
                   !.unallocated_.begin = @ + VmrPageSize]

\* Memory::ByteSpan VirtualMemoryResource::Allocate()
VmrAllocatePage(v, trap) ==
    IF v.free_ # NULL
    THEN IF v.nodes[v.free_].un_count # v.nodes[v.free_].capacity
         THEN VmrTakeStored(v, trap)
         ELSE VmrTakeNode(v)
    ELSE VmrTakeFresh(v, trap)

\* VirtualMemory::Commit(block); return Front(block, ToInt(size));
VmrCommitFront(v, size) ==
    IF v.block = VmrNoBlock
    THEN v
    ELSE [v EXCEPT !.committed = @ \cup {v.block.begin},
                   !.block = [begin |-> v.block.begin, size |-> size]]

\* VirtualMemoryResource::Allocate(size, alignment): the resource afterwards, the
\* result in its field block
VmrAllocateOn(v, size, alignment, trap) ==
    IF size <= VmrPageSize /\ alignment <= VmrPageAlignment
    THEN VmrCommitFront(VmrAllocatePage(v, trap), size)
    ELSE [v EXCEPT !.block = VmrNoBlock]

\* Deallocate, first branch: the block becomes the head FreeList node.
VmrNewNode(v, block) ==
    [VmrSetNode(v, block.begin,
                [next_ |-> v.free_,
                 capacity |-> (block.size - SizeOfFreeList) \div SizeOfPointer,
                 entries |-> [i \in 1..((block.size - SizeOfFreeList) \div SizeOfPointer) |-> NULL],
                 un_begin |-> 0,
                 un_count |-> (block.size - SizeOfFreeList) \div SizeOfPointer])
     EXCEPT !.free_ = block.begin]

\* Deallocate, second branch: the page is stored in the head node and decommitted.
VmrStore(v, block) ==
    [v EXCEPT !.nodes[v.free_].entries[v.nodes[v.free_].un_begin + 1] = block.begin,
              !.nodes[v.free_].un_begin = @ + 1,
              !.nodes[v.free_].un_count = @ - 1,
              !.committed = @ \ {block.begin}]

\* VirtualMemoryResource::Deallocate(block, alignment): the resource afterwards
VmrDeallocateOn(v, block) ==
    IF v.free_ = NULL \/ v.nodes[v.free_].un_count = 0
    THEN VmrNewNode(v, block)
    ELSE VmrStore(v, block)

VmrOwns(v, block) ==
    v.virtual_memory_.begin <= block.begin /\ block.begin + block.size <= v.virtual_memory_.end

VmrReady == ~vmr.trapped /\ vmr.steps < VmrMaxOps

VmrAllocated(before, after, size, alignment) ==
    [after EXCEPT
        !.live = IF after.block = VmrNoBlock THEN @ ELSE @ \cup {after.block},
        !.last = [op |-> "allocate", size |-> size, alignment |-> alignment, block |-> after.block,
                  live_before |-> before.live,
                  recyclable |-> before.free_ # NULL,
                  whole_page |-> before.unallocated_.end - before.unallocated_.begin >= VmrPageSize],
        !.steps = @ + 1]

\* Memory::ByteSpan Allocate(Memory::Bytes size, Memory::Alignment alignment)
VmrAllocate(size, alignment, trap) ==
    /\ VmrReady
    /\ vmr' = VmrAllocated(vmr, VmrAllocateOn(vmr, size, alignment, trap), size, alignment)
    /\ UNCHANGED <<heap, live, ret, coal, tsteps, fresh, blk, blive, bret, quota, ctx, bump, own, thr, aln, lsf, lvm, idx, lin, esf>>

\* void Deallocate(block, alignment) of a block handed out before. SYNTROPY_ASSERT(Owns(block))
\* stops the program or is compiled out; a node written over the resource itself stops it.
VmrDeallocate(block, trap) ==
    /\ VmrReady
    /\ block \in vmr.live
    /\ vmr' = IF block.begin \in {VmrMember, VmrGarbage} \/ (~VmrOwns(vmr, block) /\ trap)
              THEN [vmr EXCEPT !.trapped = TRUE, !.steps = @ + 1]
              ELSE [VmrDeallocateOn(vmr, block) EXCEPT
                       !.live = @ \ {block},
                       !.last = [VmrNoLast EXCEPT !.op = "deallocate", !.block = block, !.live_before = vmr.live],
                       !.block = VmrNoBlock,
                       !.steps = @ + 1]
    /\ UNCHANGED <<heap, live, ret, coal, tsteps, fresh, blk, blive, bret, quota, ctx, bump, own, thr, aln, lsf, lvm, idx, lin, esf>>

(***************************************************************************)
(* LinearVirtualMemoryResource (linear_virtual_memory_resource.h)          *)
(***************************************************************************)
LvmMaxOps == 5
\* VirtualMemory::GetPageSize(), scaled
LvmPageSize == 2 ^ 2
LvmCapacities == {16}
LvmGranularities == {3, 8}
\* where the reservation may begin: page-aligned addresses
LvmBases == {32, 36}
LvmSizes == {1, 3, 6}
LvmAlignments == {1, 4}

\* the pages of [begin, end), both page-aligned; none when end <= begin
LvmPages(begin, end) == {p \in begin..(end - 1) : p % LvmPageSize = 0}

\* LinearVirtualMemoryResource(capacity, granularity) over a reservation at `begin`
LvmConstruct(capacity, granularity, begin) ==
    [virtual_memory_ |-> [begin |-> begin, end |-> begin + Ceil(capacity, LvmPageSize)],
     head_ |-> begin,
     granularity_ |-> Ceil(granularity, LvmPageSize),
     committed |-> LvmPages(begin, GetAligned(begin, Ceil(granularity, LvmPageSize))),
     states |-> {},                 \* values SaveState() returned and still at or below head_ (ghost)
     last |-> "none",
     steps |-> 0]

LvmInits == {LvmConstruct(c, g, b) : c \in LvmCapacities, g \in LvmGranularities, b \in LvmBases}

\* Allocate(size, alignment): the head is aligned up; a block that fits before the end of
\* the reservation advances it, and the granules the head moved into are committed.
LvmAllocateOn(a, size, alignment) ==
    IF GetAligned(a.head_, alignment) + size <= a.virtual_memory_.end
    THEN [a EXCEPT !.head_ = GetAligned(a.head_, alignment) + size,
                   !.committed = @ \cup LvmPages(GetAligned(a.head_, a.granularity_),
                                                 GetAligned(GetAligned(a.head_, alignment) + size, a.granularity_))]
    ELSE a

\* DeallocateAll()
LvmDeallocateAllOn(a) ==
    [a EXCEPT !.committed = @ \ LvmPages(a.virtual_memory_.begin, GetAligned(a.head_, a.granularity_)),
              !.head_ = a.virtual_memory_.begin]

\* RestoreState(state)
LvmRestoreStateOn(a, state) ==
    [a EXCEPT !.committed = @ \ LvmPages(GetAligned(state, a.granularity_), GetAligned(a.head_, a.granularity_)),
              !.head_ = state]

LvmReady == lvm.steps < LvmMaxOps

LvmAllocate(size, alignment) ==
    /\ LvmReady
    /\ lvm' = [LvmAllocateOn(lvm, size, alignment) EXCEPT !.last = "allocate", !.steps = @ + 1]
    /\ UNCHANGED <<heap, live, ret, coal, tsteps, fresh, blk, blive, bret, quota, ctx, bump, own, thr, aln, lsf, vmr, idx, lin, esf>>

\* SaveState(): the caller keeps the head returned
LvmSaveState ==
    /\ LvmReady
    /\ lvm' = [lvm EXCEPT !.states = @ \cup {lvm.head_}, !.last = "save", !.steps = @ + 1]
    /\ UNCHANGED <<heap, live, ret, coal, tsteps, fresh, blk, blive, bret, quota, ctx, bump, own, thr, aln, lsf, vmr, idx, lin, esf>>

\* RestoreState(state) with a kept state at or below the head; later states are superseded
LvmRestoreState(state) ==
    /\ LvmReady
    /\ state \in lvm.states
    /\ state <= lvm.head_
    /\ lvm' = [LvmRestoreStateOn(lvm, state) EXCEPT
                 !.states = {s \in @ : s <= state}, !.last = "restore", !.steps = @ + 1]
    /\ UNCHANGED <<heap, live, ret, coal, tsteps, fresh, blk, blive, bret, quota, ctx, bump, own, thr, aln, lsf, vmr, idx, lin, esf>>

\* DeallocateAll(): every kept state above the start of the range is superseded
LvmDeallocateAll ==
    /\ LvmReady
    /\ lvm' = [LvmDeallocateAllOn(lvm) EXCEPT
                 !.states = {s \in @ : s <= lvm.virtual_memory_.begin},
                 !.last = "deallocate_all", !.steps = @ + 1]
    /\ UNCHANGED <<heap, live, ret, coal, tsteps, fresh, blk, blive, bret, quota, ctx, bump, own, thr, aln, lsf, vmr, idx, lin, esf>>

(***************************************************************************)
(* Size-class index functions, asked for pairs of sizes                    *)
(***************************************************************************)
\* the block sizes of a TLSF arena: from the smallest block to the whole arena
IndexSizes == kMinimumBlockSize..Capacity

IndexIdle ==
    [lo |-> kMinimumBlockSize, hi |-> kMinimumBlockSize, index_lo |-> -1, index_hi |-> -1,
     done |-> FALSE]

IndexInits == UNION {{[IndexIdle EXCEPT !.lo = lo, !.hi = hi] : hi \in lo..Capacity} : lo \in IndexSizes}

\* index = GetFreeListIndexBySize(size), for the two sizes
IndexApply ==
    /\ ~idx.done
    /\ idx' = [idx EXCEPT !.index_lo = GetFreeListIndexBySize(idx.lo),
                          !.index_hi = GetFreeListIndexBySize(idx.hi),
                          !.done = TRUE]
    /\ UNCHANGED <<heap, live, ret, coal, tsteps, fresh, blk, blive, bret, quota, ctx, bump, own, thr, aln, lsf, vmr, lvm, lin, esf>>

(***************************************************************************)
(* LinearAllocator with a status stack (src/memory/linear_allocator.cpp)   *)
(***************************************************************************)
LinMaxOps == 5
\* what GetMemory().Allocate(capacity) returned
LinBase == 8 * SizeOfPointer
LinCapacities == {24, 32}
LinSizes == {3, 8, 16}
LinAlignments == {1, 8}
\* a word the caller stores in memory it was given
LinCallerWord == LinBase - 1

LinNoLast == [op |-> "none", size |-> 0, alignment |-> 0, head |-> NULL, block |-> NULL,
              result |-> FALSE, saved |-> <<>>]

\* LinearAllocator::LinearAllocator(size_t capacity)
LinConstruct(capacity) ==
    [base_ |-> LinBase,
     head_ |-> LinBase,
     status_ |-> LinBase + capacity - SizeOfPointer,    \* (size_t*)(base_ + capacity) - 1
     capacity_ |-> capacity,
     mem |-> <<>>,              \* the words written through status_, and by the caller over them
     saved |-> <<>>,            \* the heads recorded by SaveStatus and not restored yet (ghost)
     trapped |-> FALSE,
     last |-> LinNoLast,
     steps |-> 0]

LinInits == {LinConstruct(capacity) : capacity \in LinCapacities}

\* Math::NextMultipleOf(head, alignment), taken as the first multiple at or after head.
NextMultipleOf(value, multiple) == GetAligned(value, multiple)

LinStoreWord(a, address, word) ==
    [a EXCEPT !.mem = [x \in (DOMAIN a.mem) \cup {address} |-> IF x = address THEN word ELSE a.mem[x]]]

\* Allocate(size, alignment), which ends in Allocate(size): the head is aligned, the block
\* begins there and the head moves past it; nothing is refused.
LinAllocateOn(a, size, alignment) ==
    [a EXCEPT !.head_ = NextMultipleOf(a.head_, alignment) + size,
              !.last = [LinNoLast EXCEPT !.op = "allocate", !.size = size, !.alignment = alignment,
                                         !.head = a.head_,
                                         !.block = NextMultipleOf(a.head_, alignment)]]

\* LinearAllocator::Free()
LinFreeOn(a) == [a EXCEPT !.head_ = a.base_, !.last = [LinNoLast EXCEPT !.op = "free", !.head = a.head_]]

\* LinearAllocator::SaveStatus(): *status_ = head_; status_--
LinSaveStatusOn(a) ==
    [LinStoreWord(a, a.status_, a.head_) EXCEPT
        !.status_ = @ - SizeOfPointer,
        !.saved = Append(@, a.head_),
        !.last = [LinNoLast EXCEPT !.op = "save", !.head = a.head_, !.saved = a.saved]]

\* LinearAllocator::RestoreStatus()
LinRestoreStatusOn(a) ==
    IF a.status_ < a.base_ + a.capacity_ - SizeOfPointer
    THEN [a EXCEPT !.status_ = @ + SizeOfPointer,
                   !.head_ = a.mem[a.status_ + SizeOfPointer],
                   !.saved = IF a.saved = <<>> THEN @ ELSE SubSeq(@, 1, Len(@) - 1),
                   !.last = [LinNoLast EXCEPT !.op = "restore", !.head = a.head_, !.saved = a.saved,
                                              !.result = TRUE]]
    ELSE [a EXCEPT !.last = [LinNoLast EXCEPT !.op = "restore", !.head = a.head_, !.saved = a.saved,
                                              !.result = FALSE]]

LinReady == lin.steps < LinMaxOps /\ ~lin.trapped

LinStopped(a) == [a EXCEPT !.trapped = TRUE, !.steps = @ + 1]

\* void* Allocate(size_t size, size_t alignment). SYNTROPY_ASSERT(head_ <= status_) stops
\* the program or is compiled out.
LinAllocate(size, alignment, trap) ==
    /\ LinReady
    /\ lin' = IF trap /\ LinAllocateOn(lin, size, alignment).head_ > lin.status_
              THEN LinStopped(LinAllocateOn(lin, size, alignment))
              ELSE [LinAllocateOn(lin, size, alignment) EXCEPT !.steps = @ + 1]
    /\ UNCHANGED <<heap, live, ret, coal, tsteps, fresh, blk, blive, bret, quota, ctx, bump, own, thr, aln, lsf, vmr, lvm, idx, esf>>

LinFree ==
    /\ LinReady
    /\ lin' = [LinFreeOn(lin) EXCEPT !.steps = @ + 1]
    /\ UNCHANGED <<heap, live, ret, coal, tsteps, fresh, blk, blive, bret, quota, ctx, bump, own, thr, aln, lsf, vmr, lvm, idx, esf>>

\* void SaveStatus(). SYNTROPY_ASSERT(status_ >= head_) stops the program or is compiled
\* out; a store below the memory of the allocator stops it as well, or lands there.
LinSaveStatus(trap) ==
    /\ LinReady
    /\ lin' = IF trap /\ (LinSaveStatusOn(lin).status_ < lin.head_ \/ lin.status_ < lin.base_)
              THEN LinStopped(LinSaveStatusOn(lin))
              ELSE [LinSaveStatusOn(lin) EXCEPT !.steps = @ + 1]
    /\ UNCHANGED <<heap, live, ret, coal, tsteps, fresh, blk, blive, bret, quota, ctx, bump, own, thr, aln, lsf, vmr, lvm, idx, esf>>

LinRestoreStatus ==
    /\ LinReady
    /\ lin' = [LinRestoreStatusOn(lin) EXCEPT !.steps = @ + 1]
    /\ UNCHANGED <<heap, live, ret, coal, tsteps, fresh, blk, blive, bret, quota, ctx, bump, own, thr, aln, lsf, vmr, lvm, idx, esf>>

\* The caller stores a word in memory below the head, which Allocate handed out.
LinCallerStore(address) ==
    /\ LinReady
    /\ address \in DOMAIN lin.mem
    /\ address < lin.head_ /\ address + SizeOfPointer > lin.base_
    /\ lin' = [LinStoreWord(lin, address, LinCallerWord) EXCEPT
                 !.last = [LinNoLast EXCEPT !.op = "store", !.head = lin.head_],
                 !.steps = @ + 1]
    /\ UNCHANGED <<heap, live, ret, coal, tsteps, fresh, blk, blive, bret, quota, ctx, bump, own, thr, aln, lsf, vmr, lvm, idx, esf>>

(***************************************************************************)
(* ExponentialSegregatedFitAllocator: the class that serves a size         *)
(***************************************************************************)
EsfMaxOrder == 3
\* the memory page size, scaled
EsfPageSize == 2 ^ 2
EsfBaseAllocationSizes == {3, 4, 8}

\* Math::CeilLog2(n): the least k with 2^k >= n
RECURSIVE CeilLog2(_)
CeilLog2(n) == IF n <= 1 THEN 0 ELSE 1 + CeilLog2((n + 1) \div 2)

\* ExponentialSegregatedFitAllocator(name, capacity, base_allocation_size, order):
\* order block allocators, each with twice the block size of the one before.
EsfConstruct(base_allocation_size, order) ==
    [base_allocation_size_ |-> Ceil(base_allocation_size, EsfPageSize),    \* Memory::CeilToPageSize
     allocators_ |-> [i \in 0..(order - 1) |-> Ceil(base_allocation_size, EsfPageSize) * Pow2(i)],
     size |-> 0,
     index |-> -1,
     done |-> FALSE]

EsfIdle == EsfConstruct(EsfPageSize, 1)

\* base_allocation_size_ * (1 << (allocators_.size() - 1))
EsfGetMaxAllocationSize(a) == a.base_allocation_size_ * Pow2(Cardinality(DOMAIN a.allocators_) - 1)

EsfInits ==
    UNION {{[EsfConstruct(base, order) EXCEPT !.size = size] :
               size \in 1..EsfGetMaxAllocationSize(EsfConstruct(base, order))} :
           base \in EsfBaseAllocationSizes, order \in 1..EsfMaxOrder}

\* GetAllocatorBySize with the quotient rounded down.
GetAllocatorBySizeFloor(a, block_size) ==
    CeilLog2(block_size \div a.base_allocation_size_)

\* GetAllocatorBySize(block_size): the index of the allocator returned
GetAllocatorBySize(a, block_size) ==
    CeilLog2((block_size + a.base_allocation_size_ - 1) \div a.base_allocation_size_)

\* void* Allocate(size_t size): GetAllocatorBySize(size).Allocate(size)
EsfAllocate ==
    /\ ~esf.done
    /\ esf' = [esf EXCEPT !.index = GetAllocatorBySize(esf, esf.size), !.done = TRUE]
    /\ UNCHANGED <<heap, live, ret, coal, tsteps, fresh, blk, blive, bret, quota, ctx, bump, own, thr, aln, lsf, vmr, lvm, idx, lin>>

(***************************************************************************)
(* Initial states and specifications                                       *)
(***************************************************************************)
TlsfIdle ==
    /\ heap = HeapInit
    /\ live = {}
    /\ ret = NoRet
    /\ coal = NoCoal
    /\ tsteps = 0
    /\ fresh = NoFresh

BlockIdle ==
    /\ blk = BlkIdle
    /\ blive = {}
    /\ bret = NoBret

OthersIdle ==
    /\ quota = QuotaInit
    /\ ctx = ContextInit
    /\ bump = BumpConstruct("LinearAllocator", 32)
    /\ own = OwnConstruct("LinearAllocator", 32)
    /\ thr = ThreadsInit
    /\ aln = [span |-> ByteSpan(AlignBufferAddress, 0), alignment |-> 1, result |-> NoSpan, again |-> NoSpan, calls |-> 0]
    /\ lsf = LsfInit
    /\ vmr = VmrConstruct(1)
    /\ lvm = LvmConstruct(16, 8, 32)
    /\ idx = IndexIdle
    /\ lin = LinConstruct(32)
    /\ esf = EsfIdle

InitTLSF == TlsfIdle /\ BlockIdle /\ OthersIdle

NextTLSF ==
    \/ \E size \in ReqSizes : TlsfAllocate(size)
    \/ \E sa \in ReqAligned : TlsfAllocateAligned(sa[1], sa[2])
    \/ TlsfAllocateMerged
    \/ \E b \in live : TlsfFree(b)

SpecTLSF == InitTLSF /\ [][NextTLSF]_vars

NextTLSFLong ==
    \/ \E size \in LongReqSizes : TlsfLongAllocate(size)
    \/ \E b \in live : TlsfLongFree(b)

SpecTLSFLong == InitTLSF /\ [][NextTLSFLong]_vars

InitBlock ==
    /\ TlsfIdle
    /\ blk \in BlkInits
    /\ blive = {}
    /\ bret = NoBret
    /\ OthersIdle

NextBlock ==
    \/ \E commit_ok \in BOOLEAN, trap \in BOOLEAN : BlockAllocate(commit_ok, trap)
    \/ \E b \in blive, offset \in {0, 3} : BlockFree(b, offset)

SpecBlock == InitBlock /\ [][NextBlock]_vars

InitQuota == TlsfIdle /\ BlockIdle /\ OthersIdle

NextQuota ==
    \/ \E size \in QuotaSizes : \E block \in UnderlyingResults(size) : QuotaAllocate(size, block)
    \/ \E b \in quota.outstanding : QuotaDeallocate(b)
    \/ QuotaDeallocateAll

SpecQuota == InitQuota /\ [][NextQuota]_vars

InitContext == TlsfIdle /\ BlockIdle /\ OthersIdle

NextContext ==
    \/ \E memory_resource \in MemoryResources : ContextConstruct(memory_resource)
    \/ ContextDestroy

SpecContext == InitContext /\ [][NextContext]_vars

InitBump ==
    /\ TlsfIdle
    /\ BlockIdle
    /\ quota = QuotaInit
    /\ ctx = ContextInit
    /\ bump \in BumpInits
    /\ own = OwnConstruct("LinearAllocator", 32)
    /\ thr = ThreadsInit
    /\ aln = [span |-> ByteSpan(AlignBufferAddress, 0), alignment |-> 1, result |-> NoSpan, again |-> NoSpan, calls |-> 0]
    /\ lsf = LsfInit
    /\ vmr = VmrConstruct(1)
    /\ lvm = LvmConstruct(16, 8, 32)
    /\ idx = IndexIdle
    /\ lin = LinConstruct(32)
    /\ esf = EsfIdle

NextBump ==
    \/ \E size \in BumpSizes, alignment \in BumpAlignments : BumpAllocate(size, alignment)
    \/ BumpSave
    \/ \E size \in BumpSizes, alignment \in BumpAlignments : BumpRecord(size, alignment)
    \/ BumpRestore
    \/ BumpReplay

SpecBump == InitBump /\ [][NextBump]_vars

InitOwns ==
    /\ TlsfIdle
    /\ BlockIdle
    /\ quota = QuotaInit
    /\ ctx = ContextInit
    /\ bump = BumpConstruct("LinearAllocator", 32)
    /\ own \in OwnInits
    /\ thr = ThreadsInit
    /\ aln = [span |-> ByteSpan(AlignBufferAddress, 0), alignment |-> 1, result |-> NoSpan, again |-> NoSpan, calls |-> 0]
    /\ lsf = LsfInit
    /\ vmr = VmrConstruct(1)
    /\ lvm = LvmConstruct(16, 8, 32)
    /\ idx = IndexIdle
    /\ lin = LinConstruct(32)
    /\ esf = EsfIdle

NextOwns ==
    \/ \E size \in OwnSizes, alignment \in OwnAlignmentsOf(own.kind), ok \in BOOLEAN : OwnAllocate(size, alignment, ok)
    \/ \E b \in own.liveb : OwnDeallocate(b)
    \/ OwnDeallocateAll
    \/ OwnSaveState
    \/ \E c \in own.checkpoints : OwnRestoreState(c)
    \/ OwnMoveConstruct
    \/ OwnDestroy

SpecOwns == InitOwns /\ [][NextOwns]_vars

InitThreads == TlsfIdle /\ BlockIdle /\ OthersIdle

NextThreads ==
    \/ \E t \in Threads, memory_resource \in MemoryResources : ThreadSetDefaultMemoryResource(t, memory_resource)
    \/ \E t \in Threads, allocator \in Allocators : ThreadSetAllocator(t, allocator)
    \/ \E t \in Threads, memory_resource \in MemoryResources : ThreadContextConstruct(t, memory_resource)
    \/ \E t \in Threads : ThreadContextDestroy(t)
    \/ \E t \in Threads : ThreadWrite(t)

SpecThreads == InitThreads /\ [][NextThreads]_vars

InitAlign ==
    /\ TlsfIdle
    /\ BlockIdle
    /\ quota = QuotaInit
    /\ ctx = ContextInit
    /\ bump = BumpConstruct("LinearAllocator", 32)
    /\ own = OwnConstruct("LinearAllocator", 32)
    /\ thr = ThreadsInit
    /\ aln \in AlignInits
    /\ lsf = LsfInit
    /\ vmr = VmrConstruct(1)
    /\ lvm = LvmConstruct(16, 8, 32)
    /\ idx = IndexIdle
    /\ lin = LinConstruct(32)
    /\ esf = EsfIdle

NextAlign ==
    \/ AlignCall
    \/ AlignAgain

SpecAlign == InitAlign /\ [][NextAlign]_vars

InitLsf == TlsfIdle /\ BlockIdle /\ OthersIdle

NextLsf ==
    \/ \E size \in LsfSizes : LsfAllocate(size)
    \/ \E block \in lsf.blocks : LsfFree(block)

SpecLsf == InitLsf /\ [][NextLsf]_vars

InitVmr ==
    /\ TlsfIdle
    /\ BlockIdle
    /\ quota = QuotaInit
    /\ ctx = ContextInit
    /\ bump = BumpConstruct("LinearAllocator", 32)
    /\ own = OwnConstruct("LinearAllocator", 32)
    /\ thr = ThreadsInit
    /\ aln = [span |-> ByteSpan(AlignBufferAddress, 0), alignment |-> 1, result |-> NoSpan, again |-> NoSpan, calls |-> 0]
    /\ lsf = LsfInit
    /\ vmr \in VmrInits
    /\ lvm = LvmConstruct(16, 8, 32)
    /\ idx = IndexIdle
    /\ lin = LinConstruct(32)
    /\ esf = EsfIdle

NextVmr ==
    \/ \E size \in VmrSizes, alignment \in VmrAlignments, trap \in BOOLEAN : VmrAllocate(size, alignment, trap)
    \/ \E block \in vmr.live, trap \in BOOLEAN : VmrDeallocate(block, trap)

SpecVmr == InitVmr /\ [][NextVmr]_vars

InitLvm ==
    /\ TlsfIdle
    /\ BlockIdle
    /\ quota = QuotaInit
    /\ ctx = ContextInit
    /\ bump = BumpConstruct("LinearAllocator", 32)
    /\ own = OwnConstruct("LinearAllocator", 32)
    /\ thr = ThreadsInit
    /\ aln = [span |-> ByteSpan(AlignBufferAddress, 0), alignment |-> 1, result |-> NoSpan, again |-> NoSpan, calls |-> 0]
    /\ lsf = LsfInit
    /\ vmr = VmrConstruct(1)
    /\ lvm \in LvmInits
    /\ idx = IndexIdle
    /\ lin = LinConstruct(32)
    /\ esf = EsfIdle

NextLvm ==
    \/ \E size \in LvmSizes, alignment \in LvmAlignments : LvmAllocate(size, alignment)
    \/ LvmSaveState
    \/ \E state \in lvm.states : LvmRestoreState(state)
    \/ LvmDeallocateAll

SpecLvm == InitLvm /\ [][NextLvm]_vars

InitIndex ==
    /\ TlsfIdle
    /\ BlockIdle
    /\ quota = QuotaInit
    /\ ctx = ContextInit
    /\ bump = BumpConstruct("LinearAllocator", 32)
    /\ own = OwnConstruct("LinearAllocator", 32)
    /\ thr = ThreadsInit
    /\ aln = [span |-> ByteSpan(AlignBufferAddress, 0), alignment |-> 1, result |-> NoSpan, again |-> NoSpan, calls |-> 0]
    /\ lsf = LsfInit
    /\ vmr = VmrConstruct(1)
    /\ lvm = LvmConstruct(16, 8, 32)
    /\ idx \in IndexInits
    /\ lin = LinConstruct(32)
    /\ esf = EsfIdle

NextIndex == IndexApply

SpecIndex == InitIndex /\ [][NextIndex]_vars

InitLin ==
    /\ TlsfIdle
    /\ BlockIdle
    /\ quota = QuotaInit
    /\ ctx = ContextInit
    /\ bump = BumpConstruct("LinearAllocator", 32)
    /\ own = OwnConstruct("LinearAllocator", 32)
    /\ thr = ThreadsInit
    /\ aln = [span |-> ByteSpan(AlignBufferAddress, 0), alignment |-> 1, result |-> NoSpan, again |-> NoSpan, calls |-> 0]
    /\ lsf = LsfInit
    /\ vmr = VmrConstruct(1)
    /\ lvm = LvmConstruct(16, 8, 32)
    /\ idx = IndexIdle
    /\ lin \in LinInits
    /\ esf = EsfIdle

NextLin ==
    \/ \E size \in LinSizes, alignment \in LinAlignments, trap \in BOOLEAN : LinAllocate(size, alignment, trap)
    \/ LinFree
    \/ \E trap \in BOOLEAN : LinSaveStatus(trap)
    \/ LinRestoreStatus
    \/ \E address \in DOMAIN lin.mem : LinCallerStore(address)

SpecLin == InitLin /\ [][NextLin]_vars

InitEsf ==
    /\ TlsfIdle
    /\ BlockIdle
    /\ quota = QuotaInit
    /\ ctx = ContextInit
    /\ bump = BumpConstruct("LinearAllocator", 32)
    /\ own = OwnConstruct("LinearAllocator", 32)
    /\ thr = ThreadsInit
    /\ aln = [span |-> ByteSpan(AlignBufferAddress, 0), alignment |-> 1, result |-> NoSpan, again |-> NoSpan, calls |-> 0]
    /\ lsf = LsfInit
    /\ vmr = VmrConstruct(1)
    /\ lvm = LvmConstruct(16, 8, 32)
    /\ idx = IndexIdle
    /\ lin = LinConstruct(32)
    /\ esf \in EsfInits

NextEsf == EsfAllocate

SpecEsf == InitEsf /\ [][NextEsf]_vars

(***************************************************************************)
(* Properties                                                              *)
(***************************************************************************)

Overlap(a, asize, b, bsize) == a < b + bsize /\ b < a + asize

\* The blocks reachable from a free-list head over next_free_.
RECURSIVE FreeChain(_, _, _)
FreeChain(h, a, fuel) ==
    IF a = NULL \/ fuel = 0 THEN {} ELSE {a} \cup FreeChain(h, Rd(h, a).next_free_, fuel - 1)

LinkedBlocks(h) ==
    UNION {FreeChain(h, h.free_lists_[i], TlsfMaxOps + 1) : i \in 0..(NumFreeLists - 1)}

\* The physical blocks: from the arena base, each block's end() is the next header.
RECURSIVE PhysicalBlocks(_, _, _)
PhysicalBlocks(h, a, fuel) ==
    IF a >= h.head \/ fuel = 0 \/ GetSize(Rd(h, a).size_) = 0
    THEN <<>>
    ELSE <<a>> \o PhysicalBlocks(h, BlockEnd(h, a), fuel - 1)

\* C1: every successful Allocate(size) returns a block whose usable length
\* (recorded block size minus the header) is at least size.
C1_UsableLengthAtLeastSize ==
    ret.op = "alloc" => ret.size - HeaderSize >= ret.request

\* C2: no two live blocks overlap, and no live block overlaps a block that is
\* linked in a free list.
C2_LiveBlocksDisjoint ==
    /\ \A x, y \in live : x.block # y.block => ~Overlap(x.block, x.size, y.block, y.size)
    /\ \A x, y \in live : x.block = y.block => x = y
    /\ \A x \in live : \A f \in LinkedBlocks(heap) :
           ~Overlap(x.block, x.size, f, GetSize(Rd(heap, f).size_))

\* C3: every successful Allocate(size, alignment) returns an address that is a
\* multiple of alignment.
C3_ReturnedAddressAligned ==
    ret.op = "alloc" => BlockBegin(ret.block) % ret.alignment = 0

\* C4: after allocating A and then B right behind it and freeing both (in either
\* order), a request of |A| + |B| - header succeeds, is not carved from the
\* arena tail, and its span contains the union of A and B.
C4_CoalescedRequestCoversBoth ==
    /\ coal.phase # "failed"
    /\ coal.phase = "done" =>
          /\ ret.op = "alloc"
          /\ ~ret.carved
          /\ BlockBegin(ret.block) <= BlockBegin(coal.a)
          /\ ret.block + ret.size >= coal.b + coal.bsize

\* C5: once a block has been carved, exactly one physical block carries is_last,
\* it is the physically last carved block, and last_block_ points to it.
C5_ExactlyOneLastBlock ==
    heap.head > ArenaBase =>
        LET blocks == PhysicalBlocks(heap, ArenaBase, TlsfMaxOps + 1)
        IN /\ Len(blocks) > 0
           /\ \A i \in 1..Len(blocks) : IsLast(Rd(heap, blocks[i]).size_) <=> i = Len(blocks)
           /\ BlockEnd(heap, blocks[Len(blocks)]) = heap.head
           /\ heap.last_block_ = blocks[Len(blocks)]

\* C6: with capacity C a multiple of the block size B, never more than C/B blocks
\* are live; when C/B blocks are live the next Allocate returns null, and no
\* address at or beyond base + C is handed out.
C6_CapacityBoundsLiveBlocks ==
    blk.reserved % blk.block_size_ = 0 =>
        /\ Cardinality(blive) <= blk.reserved \div blk.block_size_
        /\ \A b \in blive : b < blk.base_ + blk.reserved
        /\ (bret.op \in {"alloc", "trap"} /\ bret.live_before = blk.reserved \div blk.block_size_)
              => (bret.op = "alloc" /\ bret.block = NULL)

RECURSIVE SumRequested(_)
SumRequested(S) ==
    IF S = {} THEN 0 ELSE LET b == CHOOSE x \in S : TRUE IN b.requested + SumRequested(S \ {b})

\* C7: the cumulative requested size of the blocks outstanding on the underlying
\* allocator never exceeds the quota.
C7_OutstandingWithinQuota ==
    SumRequested(quota.outstanding) <= quota.quota_

C7_Witness ==
    /\ Cardinality(quota.outstanding) >= 2
    /\ SumRequested(quota.outstanding) = quota.quota_
    /\ quota.forwarded >= 3

\* C8: an Allocate with allocation_size_ + size over the quota returns an empty
\* block, does not call the underlying allocator and leaves allocation_size_
\* (and the blocks held) unchanged.
C8_RejectedRequestChangesNothing ==
    (quota.last.op = "alloc" /\ quota.last.before + quota.last.size > quota.quota_) =>
        /\ quota.last.result = 0
        /\ ~quota.last.forwarded
        /\ quota.allocation_size_ = quota.last.before
        /\ quota.outstanding = quota.last.held

C8_Witness ==
    /\ quota.last.op = "alloc"
    /\ quota.last.before = quota.quota_
    /\ quota.last.size = 1
    /\ quota.outstanding # {}

\* C9: the default memory resource is the resource of the innermost live
\* MemoryContext, or the system resource when none is live, and destroying a
\* context restores the value that was current when it was constructed.
C9_DefaultIsInnermostContext ==
    /\ GetDefaultMemoryResource(ctx) =
          (IF ctx.contexts = <<>> THEN SystemMemoryResource
           ELSE ctx.contexts[Len(ctx.contexts)].resource)
    /\ ctx.last.op = "destroy" => GetDefaultMemoryResource(ctx) = ctx.last.expected

C9_Witness ==
    /\ ctx.last.op = "destroy"
    /\ Len(ctx.contexts) >= 2
    /\ GetDefaultMemoryResource(ctx) # SystemMemoryResource
    /\ ctx.contexts[1].resource # ctx.contexts[2].resource

\* C10: after s = SaveState(), N allocations and RestoreState(s), the allocator
\* state equals its state at SaveState(), and repeating the same sizes and
\* alignments returns the same addresses.
C10_RewindIdempotence ==
    bump.phase = "replaying" =>
        /\ ~bump.trapped
        /\ Len(bump.second) = 0 => <<bump.memory_range_, bump.head_>> = bump.at_save
        /\ \A i \in 1..Len(bump.second) : bump.second[i] = bump.first[i].block

C10_Witness ==
    /\ bump.phase = "replaying"
    /\ Len(bump.first) = BumpMaxRun
    /\ Len(bump.second) = Len(bump.first)
    /\ bump.at_save[2] # bump.memory_range_.begin
    /\ bump.first[1].block # EmptyRange
    /\ bump.first[1].block.begin # bump.at_save[2]

\* The request that follows a fresh-arena allocate A, allocate B, free, free run is
\* larger than either block's payload and fits the merged block.
FreshRequestFits ==
    /\ fresh.phase = "served"
    /\ ret.op \in {"alloc", "fault"}
    /\ ret.alignment = 1
    /\ RoundedSize(ret.request) > Max(fresh.asize, fresh.bsize)
    /\ RoundedSize(ret.request) <= fresh.asize + fresh.bsize

\* C11 (as stated): on a fresh arena, after two successive allocations are both
\* freed, a request larger than either that fits the merged block succeeds, does
\* not advance the arena tail, and its span covers the merged region.
C11_MergedRequestCoversRegion ==
    FreshRequestFits =>
        /\ ret.op = "alloc"
        /\ ~ret.carved
        /\ heap.head = fresh.begin + fresh.asize + fresh.bsize
        /\ ret.block <= fresh.begin
        /\ ret.block + ret.size >= fresh.begin + fresh.asize + fresh.bsize

\* C11 (amended): such a request succeeds, does not advance the arena tail, and
\* its block starts where the merged region starts and lies inside it; it is the
\* whole merged region unless more than kMinimumBlockSize bytes would be left
\* over, and then it is exactly the rounded request.
C11_MergedRequestServedFromRegion ==
    FreshRequestFits =>
        /\ ret.op = "alloc"
        /\ ~ret.carved
        /\ heap.head = fresh.begin + fresh.asize + fresh.bsize
        /\ ret.block = fresh.begin
        /\ ret.size = (IF fresh.asize + fresh.bsize > RoundedSize(ret.request) + kMinimumBlockSize
                       THEN RoundedSize(ret.request)
                       ELSE fresh.asize + fresh.bsize)

C11_Witness ==
    /\ FreshRequestFits
    /\ ret.op = "alloc"
    /\ ret.size < fresh.asize + fresh.bsize

\* C12: every block returned by BlockAllocator::Allocate or
\* MonotonicBlockAllocator::Allocate is base + k * block_size for some k >= 0,
\* lies entirely inside the range reserved at construction, and is distinct from
\* every other live block.
C12_BlocksAreSlotsInsideReservation ==
    /\ \A b \in blive :
          /\ b >= blk.base_
          /\ (b - blk.base_) % blk.block_size_ = 0
          /\ b + blk.block_size_ <= blk.base_ + blk.reserved
    /\ bret.op = "alloc" => Cardinality(blive) = bret.live_before + 1

\* C13: when no bucket holds a fitting block and the arena's untouched tail is
\* smaller than the rounded request, Allocate returns null: it never dereferences
\* the failed pool allocation (and so leaves headers, free lists and last_block_
\* as they were).
C13_FailedPoolAllocationNotDereferenced ==
    ~(ret.op = "fault" /\ heap.fault = "null_deref")

\* C14: if the provider fails to commit a block's pages during Allocate, the call
\* reports an allocation failure (null) instead of returning the uncommitted block.
C14_CommitFailureIsAllocationFailure ==
    (/\ bret.op = "alloc"
     /\ bret.commit_called
     /\ ~(PagesOf(bret.block, blk.block_size_) \subseteq blk.committed))
        => bret.block = NULL

\* The blocks a caller may ask about: every short range around the memory the
\* allocators work on.
OwnProbes ==
    {[begin |-> x, end |-> x + n] : x \in 24..(UnderlyingBegin + OwnUnderlyingSize + 8), n \in 1..3}

\* block lies in memory the allocator currently holds: its range, or one of its chunks.
HeldMemoryContains(a, block) ==
    IF a.kind = "LinearAllocator"
    THEN RangeContains(a.memory_range_, block)
    ELSE \E i \in 1..Len(a.chunks) :
            RangeContains([begin |-> a.chunks[i].begin, end |-> a.chunks[i].end_], block)

\* C15: for LinearAllocator, LinearMemoryResource and StackAllocator, Owns is
\* true for every block Allocate returned and that has not been released (by
\* Deallocate of the last block, RestoreState / Rewind to an earlier point, or
\* DeallocateAll), and false for every block not contained in memory the
\* allocator currently holds.
C15_OwnsLiveBlocksOnly ==
    /\ \A b \in own.liveb : Owns(own, b.block)
    /\ \A block \in OwnProbes : ~HeldMemoryContains(own, block) => ~Owns(own, block)

\* Two blocks are live after a third operation, and for a chunked allocator they lie in
\* two chunks.
C15_Witness ==
    /\ Cardinality(own.liveb) >= 2
    /\ own.steps >= 3
    /\ \/ own.kind = "LinearAllocator"
       \/ Len(own.chunks) = 2 /\ \E b \in own.liveb : b.block.end <= own.chunks[1].end_

\* C16: constructing or destroying a MemoryContext, or calling
\* SetDefaultMemoryResource / SetAllocator, on one thread never changes the
\* default memory resource or allocator any other thread observes, however the
\* threads' steps interleave: after each step every thread other than the one
\* that took it reads the defaults it read before.
C16_OtherThreadsDefaultUnchanged ==
    \A u \in Threads \ {thr.last.thread} :
        /\ GetScopeMemoryResource(thr, u) = thr.last.memory_resource[u]
        /\ GetScopeAllocator(thr, u) = thr.last.allocator[u]

\* A thread has just changed its own default resource by constructing a MemoryContext
\* while another thread, whose default is not the system resource, is in the middle
\* of a call of its own.
C16_Witness ==
    \E t \in Threads, u \in Threads :
        /\ t # u
        /\ thr.last.thread = t /\ thr.pc[t] = "idle"
        /\ GetScopeMemoryResource(thr, t) # thr.last.memory_resource[t]
        /\ thr.pc[u] = "write"
        /\ GetScopeMemoryResource(thr, u) # SystemMemoryResource
        /\ thr.contexts[t] # <<>>

\* The first multiple of alignment at or after address.
FirstAlignedAddress(address, alignment) ==
    CHOOSE x \in address..(address + alignment - 1) : x % alignment = 0

\* C17: Align(span, alignment) ends at the span's end; when an aligned address
\* lies before the end it begins at the first multiple of alignment at or after
\* the span's begin and is shorter than the span by exactly the padding
\* skipped, so that a span with an aligned begin is returned unchanged; when no
\* aligned address lies before the end the result is empty.
C17_AlignReturnsAlignedTail ==
    aln.calls >= 1 =>
        /\ aln.result.end = aln.span.end
        /\ aln.span.begin % aln.alignment = 0 => aln.result = aln.span
        /\ FirstAlignedAddress(aln.span.begin, aln.alignment) < aln.span.end =>
              /\ aln.result.begin = FirstAlignedAddress(aln.span.begin, aln.alignment)
              /\ aln.result.end - aln.result.begin =
                    (aln.span.end - aln.span.begin)
                       - (FirstAlignedAddress(aln.span.begin, aln.alignment) - aln.span.begin)
        /\ FirstAlignedAddress(aln.span.begin, aln.alignment) >= aln.span.end =>
              aln.result.begin = aln.result.end

\* Align was applied to a non-empty span whose first aligned address lies past its end.
C17_Witness ==
    /\ aln.calls >= 1
    /\ aln.span.begin < aln.span.end
    /\ FirstAlignedAddress(aln.span.begin, aln.alignment) > aln.span.end
    /\ aln.result.begin = aln.result.end

\* C18: after every Free the freed block and its free physical neighbours form
\* one single free block, so that no two physically adjacent blocks are both
\* free in any reachable state.
C18_NoAdjacentFreeBlocks ==
    \A i \in 1..(Len(PhysicalBlocks(heap, ArenaBase, TlsfMaxOps + 1)) - 1) :
        \/ IsBusy(Rd(heap, PhysicalBlocks(heap, ArenaBase, TlsfMaxOps + 1)[i]).size_)
        \/ IsBusy(Rd(heap, PhysicalBlocks(heap, ArenaBase, TlsfMaxOps + 1)[i + 1]).size_)

\* The buckets whose chain holds the block.
BucketsOf(h, block) ==
    {i \in 0..(NumFreeLists - 1) : block \in FreeChain(h, h.free_lists_[i], TlsfMaxOps + 1)}

\* C19: in every reachable state each free physical block is linked in exactly
\* one bucket, the one GetFreeListIndexBySize gives for its size, and every
\* block linked in a bucket is a free physical block (so removing one block
\* from a bucket leaves the others linked).
C19_FreeBlocksLinkedInTheirBucket ==
    /\ \A i \in 1..Len(PhysicalBlocks(heap, ArenaBase, TlsfMaxOps + 1)) :
          IsBusy(Rd(heap, PhysicalBlocks(heap, ArenaBase, TlsfMaxOps + 1)[i]).size_)
          \/ BucketsOf(heap, PhysicalBlocks(heap, ArenaBase, TlsfMaxOps + 1)[i]) =
                {GetFreeListIndexBySize(
                    GetSize(Rd(heap, PhysicalBlocks(heap, ArenaBase, TlsfMaxOps + 1)[i]).size_))}
    /\ \A block \in LinkedBlocks(heap) :
          /\ \E i \in 1..Len(PhysicalBlocks(heap, ArenaBase, TlsfMaxOps + 1)) :
                PhysicalBlocks(heap, ArenaBase, TlsfMaxOps + 1)[i] = block
          /\ ~IsBusy(Rd(heap, block).size_)

\* The sum of the sizes of the blocks of a sequence of headers.
RECURSIVE SumBlockSizes(_, _)
SumBlockSizes(h, blocks) ==
    IF blocks = <<>> THEN 0
    ELSE GetSize(Rd(h, Head(blocks)).size_) + SumBlockSizes(h, Tail(blocks))

\* The blocks met from the arena base over end(), up to and including the first
\* block flagged is_last.
RECURSIVE BlocksUpToLast(_, _, _)
BlocksUpToLast(h, a, fuel) ==
    IF a >= h.head \/ fuel = 0 \/ GetSize(Rd(h, a).size_) = 0
    THEN <<>>
    ELSE IF IsLast(Rd(h, a).size_)
    THEN <<a>>
    ELSE <<a>> \o BlocksUpToLast(h, BlockEnd(h, a), fuel - 1)

\* C20: in every reachable state the physical blocks tile the carved part of
\* the arena: from the arena base each block's end() is the next header up to
\* the is_last block, which ends at the carved extent; every non-first block's
\* previous_ is its physical predecessor; the block sizes sum to the extent.
C20_BlocksTileCarvedArena ==
    heap.head > ArenaBase =>
        /\ BlocksUpToLast(heap, ArenaBase, TlsfLongMaxOps + 1) # <<>>
        /\ IsLast(Rd(heap, BlocksUpToLast(heap, ArenaBase, TlsfLongMaxOps + 1)[
                              Len(BlocksUpToLast(heap, ArenaBase, TlsfLongMaxOps + 1))]).size_)
        /\ \A i \in 2..Len(BlocksUpToLast(heap, ArenaBase, TlsfLongMaxOps + 1)) :
              Rd(heap, BlocksUpToLast(heap, ArenaBase, TlsfLongMaxOps + 1)[i]).previous_ =
                 BlocksUpToLast(heap, ArenaBase, TlsfLongMaxOps + 1)[i - 1]
        /\ SumBlockSizes(heap, BlocksUpToLast(heap, ArenaBase, TlsfLongMaxOps + 1)) = heap.head - ArenaBase

\* The pages met from the head of a class over next_.
RECURSIVE LinkedPages(_, _, _)
LinkedPages(h, page, fuel) ==
    IF page = NULL \/ fuel = 0 THEN <<>>
    ELSE <<page>> \o LinkedPages(h, h.pages[page].next_, fuel - 1)

\* How often the page is linked in the free list of the class i.
TimesLinked(h, i, page) ==
    Cardinality({k \in 1..Len(LinkedPages(h, h.free_lists_[i], LsfMaxPages + 1)) :
                    LinkedPages(h, h.free_lists_[i], LsfMaxPages + 1)[k] = page})

\* C21: after any sequence of Allocate and Free, a page in use is linked in the
\* free list of its class exactly once when it has a free block and in no list
\* when it is full, and only pages in use are linked.
C21_PagesWithFreeBlocksAreLinked ==
    \A page \in LsfPageAddresses : \A i \in 0..(LsfOrder - 1) :
        TimesLinked(lsf, i, page) =
            IF /\ lsf.pages[page].held
               /\ ~PageIsFull(lsf, page)
               /\ i = GetListIndexBySize(lsf.pages[page].block_size_)
            THEN 1 ELSE 0

RECURSIVE VmrNodesFrom(_, _)
\* the FreeList nodes reachable from `address` along next_
VmrNodesFrom(v, address) ==
    IF address = NULL THEN <<>> ELSE <<address>> \o VmrNodesFrom(v, v.nodes[address].next_)

\* how many times the free list holds `page`: as a node, or in a slot before unallocated_
VmrTimesFree(v, page) ==
    Cardinality({i \in 1..Len(VmrNodesFrom(v, v.free_)) : VmrNodesFrom(v, v.free_)[i] = page})
    + Cardinality({n \in (DOMAIN v.nodes) \X (1..VmrMaxOps) :
                     /\ \E i \in 1..Len(VmrNodesFrom(v, v.free_)) : VmrNodesFrom(v, v.free_)[i] = n[1]
                     /\ n[2] <= v.nodes[n[1]].un_begin
                     /\ v.nodes[n[1]].entries[n[2]] = page})

VmrReservedPages(v) ==
    {page \in v.virtual_memory_.begin..(v.virtual_memory_.end - 1) :
        (page - v.virtual_memory_.begin) % VmrPageSize = 0}

\* C22: Allocate(size, alignment) with size at most the page size and alignment at most
\* the page alignment returns a non-empty block whenever a recyclable page exists or a
\* whole page of the reserved range is still unallocated, and an empty block only when
\* neither holds.
C22_AllocateEmptyOnlyWhenExhausted ==
    (/\ vmr.last.op = "allocate"
     /\ vmr.last.size <= VmrPageSize
     /\ vmr.last.alignment <= VmrPageAlignment
     /\ ~vmr.trapped)
    => (vmr.last.block # VmrNoBlock <=> (vmr.last.recyclable \/ vmr.last.whole_page))

\* C23: every block returned by Allocate is a page inside the reserved range that was
\* not live, and every page handed out so far is either live or held by the free list
\* exactly once: no deallocated page is lost or handed out twice.
C23_PagesRecycledExactlyOnce ==
    /\ (vmr.last.op = "allocate" /\ vmr.last.block # VmrNoBlock)
       => /\ vmr.last.block.begin \in VmrReservedPages(vmr)
          /\ \A b \in vmr.last.live_before : b.begin # vmr.last.block.begin
    /\ ~vmr.trapped
       => \A page \in VmrReservedPages(vmr) :
             page < vmr.unallocated_.begin
             => Cardinality({b \in vmr.live : b.begin = page}) + VmrTimesFree(vmr, page) = 1

BlocksBelowHead(a) ==
    {a.base_ + k * a.block_size_ : k \in 0..(((a.head_ - a.base_) \div a.block_size_) - 1)}

\* C25: in a BlockAllocator a block of [base_, head_) is committed exactly while it is
\* live; in a MonotonicBlockAllocator every block of [base_, head_) is committed.
C25_CommittedIffLive ==
    ~blk.trapped
    => \A b \in BlocksBelowHead(blk) :
          (PagesOf(b, blk.block_size_) \subseteq blk.committed)
          <=> (blk.kind = "monotonic" \/ b \in blive)

\* C26 as stated: GetSize() of both block allocators is the high-water mark minus the
\* freed blocks, the total size of the live blocks.
C26_GetSizeIsLiveSize ==
    ~blk.trapped
    => /\ BlockGetSize(blk) = (blk.head_ - blk.base_) - Len(blk.free) * blk.block_size_
       /\ BlockGetSize(blk) = Cardinality(blive) * blk.block_size_

\* C26, amended: GetSize() of a BlockAllocator is the total size of the live blocks;
\* GetSize() of a MonotonicBlockAllocator is the high-water mark, the total size of the
\* live and the freed blocks.
C26_GetSizeByAllocator ==
    ~blk.trapped
    => BlockGetSize(blk) =
          IF blk.kind = "block"
          THEN Cardinality(blive) * blk.block_size_
          ELSE (Cardinality(blive) + Len(blk.free)) * blk.block_size_

C26_Witness ==
    /\ ~blk.trapped
    /\ blk.kind = "monotonic"
    /\ blk.free # <<>>
    /\ blive # {}
    /\ BlockGetSize(blk) = 2 * blk.block_size_

\* C27: Free(ptr) with ptr anywhere inside a live block puts that block's own start on
\* the free list, whatever base address the reservation returned.
C27_FreeReleasesTheBlock ==
    (bret.op = "free" /\ ~blk.trapped)
    => /\ blk.free # <<>>
       /\ blk.free[Len(blk.free)] = bret.block
       /\ (bret.block - blk.base_) % blk.block_size_ = 0

\* how many times the chunk at `address` was handed to the underlying Deallocate
TimesReleased(a, address) == Cardinality({i \in 1..Len(a.released) : a.released[i] = address})

\* C28: for StackAllocator, Rewind(cp) after cp = Checkpoint() and any allocations
\* returns every chunk obtained after cp to the underlying allocator exactly once,
\* releases no chunk that existed at cp, and leaves the chain, the active chunk and its
\* free span as they were at cp, also when cp was taken before any chunk existed.
C28_RewindRestoresCheckpoint ==
    (own.kind = "StackAllocator" /\ own.last.op = "rewind")
    => \A c \in own.checkpoints :
          c.stamp = own.last.stamp
          => /\ own.chunks = c.chunks
             /\ StackAllocatorCheckpoint(own) = c.state
             /\ \A i \in 1..Len(own.obtained) :
                   i > c.obtained => TimesReleased(own, own.obtained[i]) = 1
             /\ \A i \in 1..Len(c.chunks) : TimesReleased(own, c.chunks[i].begin) = 0

\* Rewind to a checkpoint taken on the first chunk after a later allocation opened a
\* second chunk.
C28_Witness ==
    /\ own.kind = "StackAllocator"
    /\ own.last.op = "rewind"
    /\ Len(own.chunks) = 1
    /\ Len(own.released) = 1
    /\ own.chunks[1].free > own.chunks[1].payload

\* the request fits the active chunk: the fast path of Allocate serves it
FitsActiveChunk(a, size, alignment) ==
    /\ a.chunks # <<>>
    /\ GetAligned(IF a.kind = "StackAllocator" THEN CurrentChunk(a).free ELSE a.head_, alignment) + size
          <= CurrentChunk(a).end_

\* C29: when a request does not fit the active chunk, LinearMemoryResource and
\* StackAllocator obtain one chunk of Ceil(size + header + alignment - 1, chunk size)
\* bytes; if it is granted, it is linked in front of the unchanged chain and the block
\* returned is aligned, has exactly size bytes and lies in the new chunk after its
\* header; if it is denied, nothing is returned and the chain and the head are unchanged.
C29_NewChunkServesTheRequest ==
    [][(/\ own'.last.op = "allocate"
        /\ own.kind # "LinearAllocator"
        /\ ~FitsActiveChunk(own, own'.last.size, own'.last.alignment))
       => IF Len(own'.obtained) > Len(own.obtained)
          THEN /\ Len(own'.obtained) = Len(own.obtained) + 1
               /\ Len(own'.chunks) = Len(own.chunks) + 1
               /\ SubSeq(own'.chunks, 1, Len(own.chunks)) = own.chunks
               /\ CurrentChunk(own').end_ - CurrentChunk(own').begin
                     = Ceil(own'.last.size + ChunkHeader(own) + own'.last.alignment - 1, own.chunk_size_)
               /\ \E b \in own'.liveb \ own.liveb :
                     /\ b.block.end - b.block.begin = own'.last.size
                     /\ b.block.begin % own'.last.alignment = 0
                     /\ b.block.begin >= CurrentChunk(own').begin + ChunkHeader(own)
                     /\ b.block.end <= CurrentChunk(own').end_
          ELSE /\ own'.chunks = own.chunks
               /\ own'.head_ = own.head_
               /\ own'.liveb = own.liveb]_vars

\* An allocation that opened a second chunk and returned its first block.
C29_Witness ==
    /\ own.last.op = "allocate"
    /\ Len(own.chunks) = 2
    /\ \E b \in own.liveb :
          /\ b.stamp = own.stamp
          /\ b.block.begin >= own.chunks[2].payload
          /\ b.block.begin - own.chunks[2].payload < own.last.alignment

\* the chunk at `address` is in the allocator's chain
HoldsChunk(a, address) == \E i \in 1..Len(a.chunks) : a.chunks[i].begin = address

\* C30: every chunk a LinearMemoryResource or StackAllocator obtained is either still in
\* its chain or was returned to the underlying allocator exactly once, also after move
\* construction, and all are returned once the allocator is destroyed; after
\* DeallocateAll the allocator holds no chunk and owns no block, and a DeallocateAll on
\* an allocator without chunks releases nothing.
C30_ChunksReturnedExactlyOnce ==
    /\ [](own.kind # "LinearAllocator"
          => /\ \A i \in 1..Len(own.obtained) :
                   TimesReleased(own, own.obtained[i])
                      = IF HoldsChunk(own, own.obtained[i]) THEN 0 ELSE 1
             /\ \A i \in 1..Len(own.released) : \E j \in 1..Len(own.obtained) : own.obtained[j] = own.released[i]
             /\ own.destroyed => own.chunks = <<>>
             /\ own.last.op = "deallocate_all"
                   => /\ own.chunks = <<>>
                      /\ \A block \in OwnProbes : ~Owns(own, block))
    /\ [][(own'.last.op = "deallocate_all" /\ own.chunks = <<>>) => own'.released = own.released]_vars

\* Two chunks were obtained and the destructor returned both.
C30_Witness ==
    /\ own.destroyed
    /\ Len(own.obtained) = 2
    /\ Len(own.released) = 2

\* C31: for LinearVirtualMemoryResource the committed part of the reservation is
\* exactly [begin, Ceil(head_, granularity_)) in every reachable state, after
\* RestoreState to a state at or below the head and after DeallocateAll as well.
C31_CommittedUpToHeadCeiling ==
    lvm.committed = LvmPages(lvm.virtual_memory_.begin, GetAligned(lvm.head_, lvm.granularity_))

\* C32: LinearAllocator::Deallocate(block) moves the head back to block.Begin()
\* exactly when block is the most recently allocated live block, and otherwise changes
\* nothing; the managed range and the other live blocks are untouched either way.
C32_DeallocateReleasesLastBlockOnly ==
    [][(own.kind = "LinearAllocator" /\ own'.last.op = "deallocate")
       => \A b \in own.liveb :
             b.stamp = own'.last.stamp
             => /\ own'.head_ = IF b \in LastLive(own) THEN b.block.begin ELSE own.head_
                /\ own'.memory_range_ = own.memory_range_
                /\ own.liveb \ {b} \subseteq own'.liveb
                /\ ~own'.trapped]_vars

\* C33: for LinearAllocator, deallocating blocks in the reverse order of their
\* allocation takes effect each time: Deallocate of the most recently allocated live
\* block returns the head to the value it had before that block was allocated.
C33_ReverseDeallocateRestoresHead ==
    [][(own.kind = "LinearAllocator" /\ own'.last.op = "deallocate")
       => \A b \in LastLive(own) :
             b.stamp = own'.last.stamp => own'.head_ = b.head]_vars

\* C34: after QuotaAllocator::DeallocateAll() GetAllocationSize() is zero and the
\* whole quota is available: an Allocate of the quota is forwarded to allocator_.
C34_DeallocateAllResetsQuota ==
    quota.last.op = "dealloc_all" =>
        /\ quota.allocation_size_ = 0
        /\ QuotaAdmits(quota, quota.quota_)

\* C35: for every block size between the minimum block size and the arena size,
\* GetFreeListIndexBySize(size) is first_level * 2^second_level_index_ + second_level
\* with first_level = floor(log2(size)) and second_level below 2^second_level_index_,
\* is below the number of free lists made at construction, and never decreases as the
\* size grows.
C35_FreeListIndexInRangeAndMonotone ==
    idx.done =>
        /\ idx.index_hi - FloorLog2(idx.hi) * Pow2(second_level_index_) \in 0..(Pow2(second_level_index_) - 1)
        /\ idx.index_hi < NumFreeLists
        /\ idx.index_lo <= idx.index_hi

C35_Witness ==
    /\ idx.done
    /\ idx.lo = kMinimumBlockSize
    /\ idx.hi = Capacity
    /\ idx.index_lo < idx.index_hi
    /\ idx.index_hi % Pow2(second_level_index_) # 0

\* C36: once every live block of a TwoLevelSegregatedFitAllocator has been freed, in
\* any order, the carved part of the arena is one single free block, flagged is_last
\* and linked in exactly one bucket, the one of its size (so that a request for the
\* carved extent less one header is served from it without moving the arena tail).
C36_AllFreedLeavesOneBlock ==
    (live = {} /\ heap.head > ArenaBase /\ heap.fault = "none") =>
        /\ PhysicalBlocks(heap, ArenaBase, TlsfMaxOps + 1) = <<ArenaBase>>
        /\ GetSize(Rd(heap, ArenaBase).size_) = heap.head - ArenaBase
        /\ IsLast(Rd(heap, ArenaBase).size_)
        /\ ~IsBusy(Rd(heap, ArenaBase).size_)
        /\ heap.last_block_ = ArenaBase
        /\ LinkedBlocks(heap) = {ArenaBase}
        /\ BucketsOf(heap, ArenaBase) = {GetFreeListIndexBySize(heap.head - ArenaBase)}

\* C37: an Allocate(size, alignment) on an unchunked bump allocator that does not fit
\* before the end of its range returns an empty block and leaves the head unchanged (so
\* that a later request that fits is served where it would have been without the call).
C37_OverflowReturnsEmpty ==
    (lin.last.op = "allocate"
       /\ NextMultipleOf(lin.last.head, lin.last.alignment) + lin.last.size > lin.base_ + lin.capacity_)
    => /\ lin.last.block = NULL
       /\ lin.head_ = lin.last.head
       /\ ~lin.trapped

C38_ServedBySmallestFittingClass ==
    esf.done =>
        /\ esf.index \in DOMAIN esf.allocators_
        /\ esf.allocators_[esf.index] >= esf.size
        /\ \A i \in DOMAIN esf.allocators_ : esf.allocators_[i] >= esf.size => esf.index <= i

C38_Witness ==
    /\ esf.done
    /\ esf.index = EsfMaxOrder - 1
    /\ esf.index >= 1
    /\ esf.size < EsfGetMaxAllocationSize(esf)
    /\ esf.size % esf.base_allocation_size_ # 0

====
